---------------------------- MODULE Spec2Model ----------------------------
(***************************************************************************)
(* Model of the map overlay engine of rof2client-dinput8 (src/mods/map):   *)
(* the filter table, the engine's label and line chains, the overlay       *)
(* objects and their dedupe maps, the marker and circle geometry, the      *)
(* per-frame update and the attach/detach splice into the host's lists.    *)
(*                                                                         *)
(* The program state is the set of VARIABLES below, named after the        *)
(* globals of the source.  Every C++ function is an operator that takes    *)
(* the whole state as a record m (one field per variable) and returns the  *)
(* state after the call; an action packs the variables with St, applies    *)
(* the handler's operator and commits the result with Commit.              *)
(***************************************************************************)
EXTENDS Integers, Sequences, FiniteSets, TLC

VARIABLES
    \* ---- world snapshot (read by the engine, changed by the game)
    spawnInfo,          \* [Spawns -> [type, pos, name]] the spawn structs
    pSpawnList,         \* the set of spawns currently in the game's spawn list
    groundList,         \* the set of ground items currently in the game's list
    pTarget,            \* current target spawn or NULL
    pLocalPlayer,       \* TRUE iff pLocalPlayer / pLocalPC are non-null
    gameState,          \* GameState::GetGameState()
    gameLabels,         \* the host's label head  (MapViewMap + 0x254)
    gameLines,          \* the host's line head   (MapViewMap + 0x250)
    \* ---- map_object.cpp / map_api.cpp globals
    Enabled,            \* MapFilterOptions[i].Enabled
    Marker,             \* MapFilterOptions[i].Marker (loaded from the INI file)
    FilterRadius,       \* MapFilterOptions[i].Radius
    FilterColor,        \* MapFilterOptions[i].Color, as (R, G, B)
    Camp,               \* (CampX, CampY)
    Pull,               \* (PullX, PullY)
    labels,             \* heap of MAPLABEL nodes
    gpLabelList,
    gpLabelListTail,
    LabelMap,
    lines,              \* heap of MapViewLine nodes
    gpLineList,
    gpLineListTail,
    objs,               \* heap of MapObject instances
    gpActiveMapObjects,
    SpawnMap,
    GroundItemMap,
    pLastTarget,
    pTargetLine,
    MapTargetNameString, \* the target naming scheme (loaded from the INI file)
    HighlightSIDELEN,   \* the highlight marker size (int)
    HighlightPulse,
    HighlightPulseIncreasing,
    HighlightPulseIndex,
    HighlightPulseDiff,
    circles,            \* the MapCircle statics of map_api.cpp and the
                        \* m_circle members of the location objects
    mapLocs,            \* heap of MapLocTemplate instances
    gMapLocTemplates,   \* the vector of the templates, in order
    pActualLabelList,
    s_labelsAttached,
    s_linesAttached,
    s_mapViewMap,
    \* ---- map_mod.cpp statics
    s_mapRenderEnabled,
    s_postDrawFaultCooldown,
    s_needsRegenerate,
    s_hadMapObjects,
    m_mapActive,
    \* ---- position of the frame hook (PostDraw_Detour / PostDraw_MapLogic)
    pc,                 \* control point inside the hook, "idle" between frames
    phase,              \* the local `phase` of PostDraw_MapLogic
    frameLog,           \* observation: the steps the current frame has run
    lastOp,             \* observation: the operation the last step performed
    snap,               \* observation: the state before the operations observed
    added,              \* observation: handles added and not removed since
    events              \* observation: the game and user events so far

vars == << spawnInfo, pSpawnList, groundList, pTarget, pLocalPlayer, gameState,
           gameLabels, gameLines, Enabled, Marker, FilterRadius, FilterColor, Camp, Pull,
           labels,
           gpLabelList, gpLabelListTail,
           LabelMap, lines, gpLineList, gpLineListTail, objs, gpActiveMapObjects,
           SpawnMap, GroundItemMap, pLastTarget, pTargetLine, MapTargetNameString,
           HighlightSIDELEN, HighlightPulse, HighlightPulseIncreasing,
           HighlightPulseIndex, HighlightPulseDiff,
           circles,
           mapLocs, gMapLocTemplates, pActualLabelList, s_labelsAttached, s_linesAttached, s_mapViewMap,
           s_mapRenderEnabled, s_postDrawFaultCooldown, s_needsRegenerate,
           s_hadMapObjects, m_mapActive, pc, phase, frameLog, lastOp, snap, added, events >>

St ==
    [ spawnInfo |-> spawnInfo, pSpawnList |-> pSpawnList, groundList |-> groundList,
      pTarget |-> pTarget, pLocalPlayer |-> pLocalPlayer, gameState |-> gameState,
      gameLabels |-> gameLabels, gameLines |-> gameLines, Enabled |-> Enabled,
      Marker |-> Marker, Radius |-> FilterRadius, Color |-> FilterColor, Camp |-> Camp, Pull |-> Pull,
      labels |-> labels, gpLabelList |-> gpLabelList,
      gpLabelListTail |-> gpLabelListTail, LabelMap |-> LabelMap, lines |-> lines,
      gpLineList |-> gpLineList, gpLineListTail |-> gpLineListTail, objs |-> objs,
      gpActiveMapObjects |-> gpActiveMapObjects, SpawnMap |-> SpawnMap,
      GroundItemMap |-> GroundItemMap, pLastTarget |-> pLastTarget,
      pTargetLine |-> pTargetLine, MapTargetNameString |-> MapTargetNameString,
      HighlightSIDELEN |-> HighlightSIDELEN, HighlightPulse |-> HighlightPulse,
      HighlightPulseIncreasing |-> HighlightPulseIncreasing,
      HighlightPulseIndex |-> HighlightPulseIndex,
      HighlightPulseDiff |-> HighlightPulseDiff,
      circles |-> circles,
      mapLocs |-> mapLocs, gMapLocTemplates |-> gMapLocTemplates,
      pActualLabelList |-> pActualLabelList, s_labelsAttached |-> s_labelsAttached,
      s_linesAttached |-> s_linesAttached, s_mapViewMap |-> s_mapViewMap,
      s_mapRenderEnabled |-> s_mapRenderEnabled,
      s_postDrawFaultCooldown |-> s_postDrawFaultCooldown,
      s_needsRegenerate |-> s_needsRegenerate, s_hadMapObjects |-> s_hadMapObjects,
      m_mapActive |-> m_mapActive, pc |-> pc, phase |-> phase,
      frameLog |-> frameLog, lastOp |-> lastOp ]

Commit(m) ==
    /\ spawnInfo' = m.spawnInfo
    /\ pSpawnList' = m.pSpawnList
    /\ groundList' = m.groundList
    /\ pTarget' = m.pTarget
    /\ pLocalPlayer' = m.pLocalPlayer
    /\ gameState' = m.gameState
    /\ gameLabels' = m.gameLabels
    /\ gameLines' = m.gameLines
    /\ Enabled' = m.Enabled
    /\ Marker' = m.Marker
    /\ FilterRadius' = m.Radius
    /\ FilterColor' = m.Color
    /\ Camp' = m.Camp
    /\ Pull' = m.Pull
    /\ labels' = m.labels
    /\ gpLabelList' = m.gpLabelList
    /\ gpLabelListTail' = m.gpLabelListTail
    /\ LabelMap' = m.LabelMap
    /\ lines' = m.lines
    /\ gpLineList' = m.gpLineList
    /\ gpLineListTail' = m.gpLineListTail
    /\ objs' = m.objs
    /\ gpActiveMapObjects' = m.gpActiveMapObjects
    /\ SpawnMap' = m.SpawnMap
    /\ GroundItemMap' = m.GroundItemMap
    /\ pLastTarget' = m.pLastTarget
    /\ pTargetLine' = m.pTargetLine
    /\ MapTargetNameString' = m.MapTargetNameString
    /\ HighlightSIDELEN' = m.HighlightSIDELEN
    /\ HighlightPulse' = m.HighlightPulse
    /\ HighlightPulseIncreasing' = m.HighlightPulseIncreasing
    /\ HighlightPulseIndex' = m.HighlightPulseIndex
    /\ HighlightPulseDiff' = m.HighlightPulseDiff
    /\ circles' = m.circles
    /\ mapLocs' = m.mapLocs
    /\ gMapLocTemplates' = m.gMapLocTemplates
    /\ pActualLabelList' = m.pActualLabelList
    /\ s_labelsAttached' = m.s_labelsAttached
    /\ s_linesAttached' = m.s_linesAttached
    /\ s_mapViewMap' = m.s_mapViewMap
    /\ s_mapRenderEnabled' = m.s_mapRenderEnabled
    /\ s_postDrawFaultCooldown' = m.s_postDrawFaultCooldown
    /\ s_needsRegenerate' = m.s_needsRegenerate
    /\ s_hadMapObjects' = m.s_hadMapObjects
    /\ m_mapActive' = m.m_mapActive
    /\ pc' = m.pc
    /\ phase' = m.phase
    /\ frameLog' = m.frameLog
    /\ lastOp' = m.lastOp

-----------------------------------------------------------------------------
(* Bounds of the model and program constants.                              *)

\* number of spawn handles of the world snapshot
NumSpawns == 2
\* number of ground-item handles of the world snapshot
NumGround == 1
\* the most objects the index calls are let to allocate
MaxObjects == 3
\* the game and user events one behaviour of SpecUpdate goes through
MaxEvents == 6

\* the null pointer; engine nodes are positive addresses, host nodes negative
NULL == 0
\* the head node of the host's own label chain, when the host has labels
HostLabelNode == -1
\* the head node of the host's own line chain, when the host has lines
HostLineNode == -2

CIRCLE_ANGLESIZE == 10
CIRCLE_NUM_SEGMENTS == 360 \div CIRCLE_ANGLESIZE

MarkerSides_Triangle == 3
MarkerSides_Square == 4
MarkerSides_Diamond == 4
MarkerSides_Ring == 8

GAMESTATE_INGAME == 5
GAMESTATE_POSTCHARSELECT == 3

FaultCooldownFrames == 60

Spawns == 1..NumSpawns
GroundItems == 1..NumGround

Min(S) == CHOOSE x \in S : \A y \in S : x <= y

\* the address `new` returns: any free one; the model takes the lowest
NewAddr(heap) == Min({a \in 1..(Cardinality(DOMAIN heap) + 1) : a \notin DOMAIN heap})

\* f with key k removed (std::map::erase, delete)
Drop(f, k) == [x \in DOMAIN f \ {k} |-> f[x]]
\* f with key k bound to v (std::map::operator[], new)
Put(f, k, v) == [x \in DOMAIN f \cup {k} |-> IF x = k THEN v ELSE f[x]]

\* sequencing: the statements Body run on the value e of what ran before
With(e, Body(_)) == Body(e)

-----------------------------------------------------------------------------
(* Filter registry: the MapFilterOptions table (map_object.cpp) and the    *)
(* inline helpers of map.h.                                                *)

Invalid == "Invalid"

\* RequiresOption column of the MapFilterOptions table
RequiresOption ==
    [ All |-> Invalid, PC |-> "All", PCConColor |-> "PC", Group |-> "PC",
      Mount |-> "All", NPC |-> "All", NPCConColor |-> "NPC",
      Untargetable |-> "All", Pet |-> "All", Corpse |-> "All", Chest |-> "All",
      Trigger |-> "All", Trap |-> "All", Timer |-> "All", Ground |-> "All",
      Target |-> "All", TargetLine |-> "Target", TargetRadius |-> "Target",
      TargetMelee |-> "Target", Vector |-> "All", Custom |-> "All",
      CastRadius |-> "All", NormalLabels |-> "All", ContextMenu |-> "All",
      SpellRadius |-> "All", Aura |-> "All", Object |-> "All", Banner |-> "All",
      Campfire |-> "All", PCCorpse |-> "Corpse", NPCCorpse |-> "Corpse",
      Mercenary |-> "All", Named |-> "NPC", TargetPath |-> "Target",
      Marker |-> "All", CampRadius |-> "All", PullRadius |-> "All" ]

MapFilter == DOMAIN RequiresOption

\* options whose Flags carry MFO::Regenerate
RegenerateOptions ==
    {"PCConColor", "NPCConColor", "Target", "Vector", "Custom", "Named", "Marker"}

\* options whose Flags carry MFO::UsesRadius
RadiusOptions ==
    {"TargetRadius", "TargetMelee", "CastRadius", "SpellRadius", "CampRadius",
     "PullRadius"}

\* options whose Flags carry MFO::NoColor
NoColorOptions ==
    {"All", "PCConColor", "NPCConColor", "Vector", "Custom", "NormalLabels",
     "ContextMenu", "Marker"}

\* the radius the INI file holds for a radius option it enables
LoadedRadiusValue == 30
\* LoadMapSettings(): Enabled and Radius of a radius option are read from
\* the same key
LoadedRadius(enabled) ==
    [o \in DOMAIN enabled |->
        IF o \in {"TargetRadius", "TargetMelee", "CastRadius", "SpellRadius",
                  "CampRadius", "PullRadius"} /\ enabled[o]
        THEN LoadedRadiusValue ELSE 0]

\* the Enabled bits after MapMod::Initialize has applied its defaults
\* (before LoadMapSettings overrides them from the INI file)
DefaultEnabled ==
    [o \in MapFilter |->
        o \in {"All", "PC", "NPC", "Target", "TargetLine", "NormalLabels",
               "Corpse", "NPCCorpse", "PCCorpse"}]

\* DefaultColor column of the table, as (R, G, B); MQColor() is (0, 0, 0)
DefaultColor ==
    [o \in MapFilter |->
        CASE o = "PC" -> <<255, 0, 255>>
          [] o = "Group" -> <<0, 128, 192>>
          [] o = "Mount" -> <<112, 112, 112>>
          [] o \in {"NPC", "Aura", "Object", "Banner", "Campfire", "Named"} -> <<64, 64, 64>>
          [] o = "Untargetable" -> <<128, 128, 128>>
          [] o \in {"Pet", "Mercenary"} -> <<128, 0, 128>>
          [] o \in {"Corpse", "PCCorpse", "NPCCorpse"} -> <<0, 0, 128>>
          [] o \in {"Chest", "Trigger", "Trap", "Timer", "Ground"} -> <<192, 128, 0>>
          [] o = "Target" -> <<192, 0, 0>>
          [] o \in {"TargetLine", "TargetPath"} -> <<128, 0, 0>>
          [] o \in {"TargetRadius", "CastRadius", "SpellRadius", "CampRadius",
                    "PullRadius"} -> <<128, 128, 0>>
          [] o = "TargetMelee" -> <<255, 128, 0>>
          [] OTHER -> <<0, 0, 0>>]

\* IsOptionEnabled reading the option's own bit only
IsOptionEnabled_OwnBit(m, Option) ==
    IF Option = Invalid
    THEN TRUE
    ELSE m.Enabled[Option]

\* IsOptionEnabled(Option): Invalid passes; else Enabled and the requirement
RECURSIVE IsOptionEnabled(_, _)
IsOptionEnabled(m, Option) ==
    IF Option = Invalid
    THEN TRUE
    ELSE m.Enabled[Option] /\ IsOptionEnabled(m, RequiresOption[Option])

\* RequirementsMet(Option): the same recursion without the option's own bit
RequirementsMet(m, Option) ==
    IF Option = Invalid
    THEN TRUE
    ELSE IsOptionEnabled(m, RequiresOption[Option])

\* GetMapFilterOption(o).Color; the Invalid option has MQColor()
OptionColor(m, o) == IF o = Invalid THEN <<0, 0, 0>> ELSE m.Color[o]

-----------------------------------------------------------------------------
(* Label and line chains (map_object.cpp, "Label list management" and      *)
(* "Line list management").  A node is a heap cell with pNext and pPrev;   *)
(* the host's own nodes are the negative addresses, outside these heaps.   *)

Origin == <<0, 0, 0>>
NoColor == <<0, 0, 0>>

\* the engine's nodes (the host's are at negative addresses)
EngineLabels(m) == {a \in DOMAIN m.labels : a > 0}
EngineLines(m) == {a \in DOMAIN m.lines : a > 0}

\* InitLabel(): a new node pushed at the head of the label chain; the new
\* node is the head of the chain afterwards
InitLabel(m) ==
    LET a == NewAddr(m.labels)
        node == [pNext |-> m.gpLabelList, pPrev |-> NULL, Location |-> Origin,
                 Color |-> NoColor, Label |-> <<>>]
        linked == IF m.gpLabelList # NULL
                  THEN [m.labels EXCEPT ![m.gpLabelList].pPrev = a]
                  ELSE m.labels
    IN [m EXCEPT !.labels = Put(linked, a, node),
                 !.gpLabelListTail = IF m.gpLabelList # NULL THEN @ ELSE a,
                 !.gpLabelList = a]

\* a DeleteLabel that leaves the tail pointer alone
DeleteLabel_KeepsTail(m, pLabel) ==
    LET n == m.labels[pLabel]
        l1 == IF n.pNext # NULL
              THEN [m.labels EXCEPT ![n.pNext].pPrev = n.pPrev]
              ELSE m.labels
        l2 == IF n.pPrev # NULL
              THEN [l1 EXCEPT ![n.pPrev].pNext = n.pNext]
              ELSE l1
    IN [m EXCEPT !.labels = Drop(l2, pLabel),
                 !.gpLabelList = IF n.pPrev # NULL THEN @ ELSE n.pNext]

\* DeleteLabel(pLabel): unlink from both neighbours (or head / tail), free
DeleteLabel(m, pLabel) ==
    LET n == m.labels[pLabel]
        l1 == IF n.pNext # NULL
              THEN [m.labels EXCEPT ![n.pNext].pPrev = n.pPrev]
              ELSE m.labels
        l2 == IF n.pPrev # NULL
              THEN [l1 EXCEPT ![n.pPrev].pNext = n.pNext]
              ELSE l1
    IN [m EXCEPT !.labels = Drop(l2, pLabel),
                 !.gpLabelListTail = IF n.pNext # NULL THEN @ ELSE n.pPrev,
                 !.gpLabelList = IF n.pPrev # NULL THEN @ ELSE n.pNext]

\* GetMapObjectForLabel(pLabel)
GetMapObjectForLabel(m, pLabel) ==
    IF pLabel \in DOMAIN m.LabelMap THEN m.LabelMap[pLabel] ELSE NULL

\* InitLine(): a new node pushed at the head of the line chain
InitLine(m) ==
    LET a == NewAddr(m.lines)
        node == [pNext |-> m.gpLineList, pPrev |-> NULL, Start |-> Origin,
                 End |-> Origin, Color |-> NoColor]
        linked == IF m.gpLineList # NULL
                  THEN [m.lines EXCEPT ![m.gpLineList].pPrev = a]
                  ELSE m.lines
    IN [m EXCEPT !.lines = Put(linked, a, node),
                 !.gpLineListTail = IF m.gpLineList # NULL THEN @ ELSE a,
                 !.gpLineList = a]

\* DeleteLine(pLine): no-op on null; else unlink and free
DeleteLine(m, pLine) ==
    IF pLine = NULL
    THEN m
    ELSE LET n == m.lines[pLine]
             l1 == IF n.pNext # NULL
                   THEN [m.lines EXCEPT ![n.pNext].pPrev = n.pPrev]
                   ELSE m.lines
             l2 == IF n.pPrev # NULL
                   THEN [l1 EXCEPT ![n.pPrev].pNext = n.pNext]
                   ELSE l1
         IN [m EXCEPT !.lines = Drop(l2, pLine),
                      !.gpLineListTail = IF n.pNext # NULL THEN @ ELSE n.pPrev,
                      !.gpLineList = IF n.pPrev # NULL THEN @ ELSE n.pNext]

\* delete every line of a sequence of line pointers, in order
RECURSIVE DeleteLines(_, _)
DeleteLines(m, ptrs) ==
    IF ptrs = <<>> THEN m ELSE DeleteLines(DeleteLine(m, Head(ptrs)), Tail(ptrs))

\* the nodes reached from `head` by pNext, as a sequence (at most `fuel` nodes)
RECURSIVE Chain(_, _, _)
Chain(heap, head, fuel) ==
    IF head = NULL \/ head \notin DOMAIN heap \/ fuel = 0
    THEN <<>>
    ELSE <<head>> \o Chain(heap, heap[head].pNext, fuel - 1)

\* the engine's own part of a chain: from the head up to the first host node
RECURSIVE EngineChain(_, _, _)
EngineChain(heap, head, fuel) ==
    IF head = NULL \/ head < 0 \/ head \notin DOMAIN heap \/ fuel = 0
    THEN <<>>
    ELSE <<head>> \o EngineChain(heap, heap[head].pNext, fuel - 1)

Range(seq) == {seq[i] : i \in DOMAIN seq}

-----------------------------------------------------------------------------
(* MapObject base class (map_object.cpp "MapObject base class" and         *)
(* "Markers").  `o` is the address of the object (`this`).                 *)

HighlightColor == <<112, 0, 112>>

\* the initializer of HighlightSIDELEN
DefaultHighlightSIDELEN == 10

\* the range of int
INT_MAX == 2147483647
INT_MIN == -INT_MAX - 1

\* a / b of two ints, b > 0: the quotient truncated toward zero
CDiv(a, b) == IF a >= 0 THEN a \div b ELSE -((-a) \div b)

\* the default naming scheme "%N" of MapNameString and MapTargetNameString
MapNameString == <<"%", "N">>

\* rendering-space point of a stored position: both X and Y are negated
RenderPoint(pos) == <<-pos[1], -pos[2], pos[3]>>

\* GetNumMarkerSides(type)
GetNumMarkerSides(type) ==
    CASE type = "Triangle" -> MarkerSides_Triangle
      [] type = "Square" -> MarkerSides_Square
      [] type = "Diamond" -> MarkerSides_Diamond
      [] type = "Ring" -> MarkerSides_Ring
      [] OTHER -> 0

MarkerTypes == {"None", "Triangle", "Square", "Diamond", "Ring"}

\* MapObject::MapObject(): the new object becomes the head of the active list
MapObject_ctor(m, kind, handle, type, explicit) ==
    LET a == NewAddr(m.objs)
        node == [kind |-> kind, handle |-> handle, m_type |-> type,
                 m_explicit |-> explicit, m_pos |-> Origin, m_text |-> <<>>,
                 m_color |-> NoColor, m_label |-> NULL, m_vector |-> NULL,
                 m_highlight |-> FALSE, m_marker |-> "None",
                 m_markerLines |-> <<>>, m_pLast |-> NULL,
                 m_pNext |-> m.gpActiveMapObjects]
        linked == IF m.gpActiveMapObjects # NULL
                  THEN [m.objs EXCEPT ![m.gpActiveMapObjects].m_pLast = a]
                  ELSE m.objs
    IN [m EXCEPT !.objs = Put(linked, a, node), !.gpActiveMapObjects = a]

\* MapObject::GenerateLabel()
GenerateLabel(m, o) ==
    With(InitLabel(m), LAMBDA m1 :
        [m1 EXCEPT !.objs[o].m_label = m1.gpLabelList,
                   !.labels[m1.gpLabelList].Location = RenderPoint(m.objs[o].m_pos),
                   !.labels[m1.gpLabelList].Color = m.objs[o].m_color,
                   !.labels[m1.gpLabelList].Label = <<>>,
                   !.LabelMap = Put(@, m1.gpLabelList, o)])

\* MapObject::SetText(text)
SetText(m, o, text) ==
    IF m.objs[o].m_text = text
    THEN m
    ELSE LET m1 == [m EXCEPT !.objs[o].m_text = text]
         IN IF m.objs[o].m_label # NULL
            THEN [m1 EXCEPT !.labels[m.objs[o].m_label].Label = text]
            ELSE m1

\* MapObject::SetColor(color)
SetColor(m, o, color) ==
    IF m.objs[o].m_color = color
    THEN m
    ELSE LET m1 == [m EXCEPT !.objs[o].m_color = color]
         IN IF m.objs[o].m_label # NULL
            THEN [m1 EXCEPT !.labels[m.objs[o].m_label].Color = color]
            ELSE m1

\* Make{Triangle,Square,Diamond,Ring}Marker(): every marker line is placed
\* around the object's point and takes the label's color
SetMarkerLine(m, o, i) ==
    LET ob == m.objs[o]
        ln == ob.m_markerLines[i]
        p == RenderPoint(ob.m_pos)
    IN [m EXCEPT !.lines[ln].Start = <<"marker", ob.m_marker, i, p[1], p[2], p[3]>>,
                 !.lines[ln].End = <<"marker", ob.m_marker, i + 1, p[1], p[2], p[3]>>,
                 !.lines[ln].Color = m.labels[ob.m_label].Color]

RECURSIVE MakeMarker(_, _, _, _)
MakeMarker(m, o, i, sides) ==
    IF i > sides THEN m ELSE MakeMarker(SetMarkerLine(m, o, i), o, i + 1, sides)

\* MapObject::UpdateMarker(): dispatch on m_marker; None does nothing
UpdateMarker(m, o) ==
    IF m.objs[o].m_marker \in {"Triangle", "Square", "Diamond", "Ring"}
    THEN MakeMarker(m, o, 1, GetNumMarkerSides(m.objs[o].m_marker))
    ELSE m

\* a RemoveMarker that frees the lines and forgets to reset the type
RemoveMarker_KeepsType(m, o) ==
    IF m.objs[o].m_marker = "None"
    THEN m
    ELSE [DeleteLines(m, m.objs[o].m_markerLines) EXCEPT !.objs[o].m_markerLines = <<>>]

\* MapObject::RemoveMarker()
RemoveMarker(m, o) ==
    IF m.objs[o].m_marker = "None"
    THEN m
    ELSE LET m1 == DeleteLines(m, m.objs[o].m_markerLines)
         IN [m1 EXCEPT !.objs[o].m_markerLines = <<>>,
                       !.objs[o].m_marker = "None"]

\* the loop of GenerateMarker: `sides` new lines, each pushed to m_markerLines
RECURSIVE NewMarkerLines(_, _, _)
NewMarkerLines(m, o, sides) ==
    IF sides = 0
    THEN m
    ELSE NewMarkerLines(
            With(InitLine(m), LAMBDA m1 :
                [m1 EXCEPT !.lines[m1.gpLineList].Start = <<0, 0, m.objs[o].m_pos[3]>>,
                           !.lines[m1.gpLineList].End = <<0, 0, m.objs[o].m_pos[3]>>,
                           !.lines[m1.gpLineList].Color = m.labels[m.objs[o].m_label].Color,
                           !.objs[o].m_markerLines = Append(@, m1.gpLineList)]),
            o, sides - 1)

-----------------------------------------------------------------------------
(* MapCircle (map_object.cpp) and the circle statics of map_api.cpp.       *)

CircleNames ==
    {"CastCircle", "SpellCircle", "TargetCircle", "TargetMeleeCircle",
     "CampCircle", "PullCircle"}

Segments == 0..(CIRCLE_NUM_SEGMENTS - 1)

\* MapCircle::MapCircle(): no component, not initialized
MapCircle_ctor == [m_initialized |-> FALSE, m_components |-> [i \in Segments |-> NULL]]

\* the point at `Angle` degrees on the circle geo = (Radius, X, Y, Z): the
\* code computes -X + Radius * cos(Angle), -Y + Radius * sin(Angle); the
\* model keeps the angle and the operands
ArcPoint(geo, Angle) == <<"arc", Angle, geo[1], -geo[2], -geo[3], geo[4]>>

\* MapCircle::Clear(): nothing unless initialized; else free every component
RECURSIVE ClearLoop(_, _, _)
ClearLoop(m, c, i) ==
    IF i >= CIRCLE_NUM_SEGMENTS
    THEN m
    ELSE IF m.circles[c].m_components[i] # NULL
         THEN ClearLoop([DeleteLine(m, m.circles[c].m_components[i])
                            EXCEPT !.circles[c].m_components[i] = NULL], c, i + 1)
         ELSE ClearLoop(m, c, i + 1)

Clear(m, c) == IF ~m.circles[c].m_initialized THEN m ELSE ClearLoop(m, c, 0)

\* the body of the loop of UpdateCircle once the component exists
\* a segment whose end is computed at the angle of its start
SetSegment_SameEnd(m, c, i, Angle, Color, geo) ==
    LET ln == m.circles[c].m_components[i]
    IN [m EXCEPT !.lines[ln].Color = Color,
                 !.lines[ln].Start = ArcPoint(geo, Angle),
                 !.lines[ln].End = ArcPoint(geo, Angle)]

SetSegment(m, c, i, Angle, Color, geo) ==
    LET ln == m.circles[c].m_components[i]
    IN [m EXCEPT !.lines[ln].Color = Color,
                 !.lines[ln].Start = ArcPoint(geo, Angle),
                 !.lines[ln].End = ArcPoint(geo, Angle + CIRCLE_ANGLESIZE)]

\* m_components[i] = InitLine()
NewSegment(m, c, i) ==
    With(InitLine(m), LAMBDA t : [t EXCEPT !.circles[c].m_components[i] = t.gpLineList])

\* MapCircle::UpdateCircle(Color, Radius, X, Y, Z): the loop over the
\* segments; Angle is a uint32_t advanced by CIRCLE_ANGLESIZE per segment
\* (it ends at 360, far below the width of the type)
RECURSIVE UpdateCircleLoop(_, _, _, _, _, _)
UpdateCircleLoop(m, c, i, Angle, Color, geo) ==
    IF i >= CIRCLE_NUM_SEGMENTS
    THEN m
    ELSE IF m.circles[c].m_components[i] = NULL
         THEN UpdateCircleLoop(SetSegment(NewSegment(m, c, i), c, i, Angle, Color, geo),
                               c, i + 1, Angle + CIRCLE_ANGLESIZE, Color, geo)
         ELSE UpdateCircleLoop(SetSegment(m, c, i, Angle, Color, geo),
                               c, i + 1, Angle + CIRCLE_ANGLESIZE, Color, geo)

UpdateCircle(m, c, Color, Radius, X, Y, Z) ==
    [UpdateCircleLoop(m, c, 0, 0, Color, <<Radius, X, Y, Z>>)
        EXCEPT !.circles[c].m_initialized = TRUE]

-----------------------------------------------------------------------------
(* World snapshot accessors (mq_compat.cpp).                               *)

\* GetSpawnType(pSpawn): the classification of the spawn struct
GetSpawnType(m, sp) == IF sp = NULL THEN "NONE" ELSE m.spawnInfo[sp].type

UpperChars == {"A", "B", "C", "N", "O", "R", "Z"}

\* IsNamed(pSpawn): the naming heuristic on the raw name
IsNamed(m, sp) ==
    LET name == m.spawnInfo[sp].name
    IN IF sp = NULL THEN FALSE
       ELSE IF GetSpawnType(m, sp) # "NPC" THEN FALSE
       ELSE IF Len(name) = 0 THEN FALSE
       ELSE IF name[1] = "A" /\ Len(name) >= 2 /\ name[2] = "_" THEN FALSE
       ELSE IF name[1] = "A" /\ Len(name) >= 3 /\ name[2] = "n" /\ name[3] = "_"
            THEN FALSE
       ELSE IF name[1] = "#" THEN TRUE
       ELSE name[1] \in UpperChars

\* ci_find_substr(str, pat) # -1
Contains(str, pat) ==
    \E i \in 0..(Len(str) - Len(pat)) :
        \A j \in 1..Len(pat) : str[i + j] = pat[j]

\* a cleared MQSpawnSearch (ClearSearchSpawn): matches every type and name
ClearedSearch == [SpawnType |-> "NONE", szName |-> <<>>, bNamed |-> FALSE]
\* MapFilterNamed: ParseSearchSpawn("#") at the end of LoadMapSettings
MapFilterNamed == [ClearedSearch EXCEPT !.szName = <<"#">>]
\* MapFilterCustom: only ever cleared (the Custom option is a Toggle, so
\* MapFilterSetting never parses a search string into it)
MapFilterCustom == ClearedSearch

\* SpawnMatchesSearch(pSearch, pChar, pSpawn), on the fields the map sets
SpawnMatchesSearch(m, search, sp) ==
    IF sp = NULL THEN FALSE
    ELSE IF search.SpawnType # "NONE" /\ search.SpawnType # GetSpawnType(m, sp)
         THEN FALSE
    ELSE IF /\ Len(search.szName) > 0
            /\ Len(m.spawnInfo[sp].name) > 0
            /\ ~Contains(m.spawnInfo[sp].name, search.szName)
         THEN FALSE
    ELSE IF search.bNamed /\ ~IsNamed(m, sp) THEN FALSE
    ELSE TRUE

-----------------------------------------------------------------------------
(* MapObjectSpawn and MapObjectGroundSpawn (map_object.cpp).               *)

\* std::to_string of a number, as one output element
NumText(v) == ToString(v)

\* MapObject::HandleFormatSpecifier(spec, sOutput): the base specifiers
BaseFormatSpecifier(m, o, spec, out) ==
    CASE spec \in {"N", "n"} -> out \o m.objs[o].m_text
      [] spec = "h" -> Append(out, "1")
      [] spec \in {"i", "l"} -> Append(out, "0")
      [] spec = "x" -> Append(out, NumText(m.objs[o].m_pos[1]))
      [] spec = "y" -> Append(out, NumText(m.objs[o].m_pos[2]))
      [] spec = "z" -> Append(out, NumText(m.objs[o].m_pos[3]))
      [] spec = "%" -> Append(out, "%")
      [] OTHER -> Append(Append(out, "%"), spec)

CorpseSuffix == <<"'", "s", " ", "C", "o", "r", "p", "s", "e">>

\* MapObjectSpawn::HandleFormatSpecifier
SpawnFormatSpecifier(m, o, spec, out) ==
    LET sp == m.objs[o].handle
        info == m.spawnInfo[sp]
    IN CASE spec = "N" ->
                out \o info.name
                    \o (IF m.objs[o].m_type = "CORPSE" THEN CorpseSuffix ELSE <<>>)
         [] spec = "n" -> out \o info.name
         [] spec = "h" -> Append(out, "<hp>")
         [] spec = "i" -> Append(out, NumText(sp))
         [] spec = "x" -> Append(out, NumText(info.pos[1]))
         [] spec = "y" -> Append(out, NumText(info.pos[2]))
         [] spec = "z" -> Append(out, NumText(info.pos[3]))
         [] spec = "R" -> Append(out, "<race>")
         [] spec = "C" -> Append(out, "<class>")
         [] spec = "c" -> Append(out, "<cls>")
         [] spec = "l" -> Append(out, "<level>")
         [] OTHER -> BaseFormatSpecifier(m, o, spec, out)

\* MapObjectGroundSpawn::HandleFormatSpecifier: %N / %n ASSIGN the friendly
\* name to the output (sOutput = m_friendlyName)
GroundFormatSpecifier(m, o, spec, out) ==
    IF spec \in {"N", "n"}
    THEN <<"g", "r", "o", "u", "n", "d", ToString(m.objs[o].handle)>>
    ELSE BaseFormatSpecifier(m, o, spec, out)

\* virtual dispatch of HandleFormatSpecifier
HandleFormatSpecifier(m, o, spec, out) ==
    CASE m.objs[o].kind = "spawn" -> SpawnFormatSpecifier(m, o, spec, out)
      [] m.objs[o].kind = "ground" -> GroundFormatSpecifier(m, o, spec, out)
      [] OTHER -> BaseFormatSpecifier(m, o, spec, out)

\* the terminator of a C string
NUL == "\\0"

\* the memory a template lies in: its characters, its terminator at index
\* Len + 1 and then the bytes `after` that follow the array (the model's
\* memory ends with a zero byte)
Memory(fmt, after) == fmt \o <<NUL>> \o after \o <<NUL>>

\* MapObject::FormatString(formatString): n is the 1-based read position in
\* the memory mem.  The loop tests mem[n] for the terminator; after a '%' it
\* reads the specifier at n + 1 and goes on at n + 2 without testing it.
RECURSIVE FormatScan(_, _, _, _, _)
FormatScan(m, o, mem, n, out) ==
    IF n > Len(mem) \/ mem[n] = NUL
    THEN out
    ELSE IF mem[n] # "%"
         THEN FormatScan(m, o, mem, n + 1, Append(out, mem[n]))
         ELSE FormatScan(m, o, mem, n + 2,
                         HandleFormatSpecifier(m, o, mem[n + 1], out))

\* the positions of mem the loop of FormatString reads
RECURSIVE FormatReads(_, _)
FormatReads(mem, n) ==
    IF n > Len(mem) THEN {}
    ELSE IF mem[n] = NUL THEN {n}
    ELSE IF mem[n] # "%" THEN {n} \cup FormatReads(mem, n + 1)
    ELSE {n, n + 1} \cup FormatReads(mem, n + 2)

\* FormatString on a template followed in memory by the bytes `after`
FormatStringIn(m, o, fmt, after) == FormatScan(m, o, Memory(fmt, after), 1, <<>>)

\* FormatString on a template that does not end in a lone '%': nothing
\* after the terminator is read
FormatString(m, o, fmt) == FormatStringIn(m, o, fmt, <<>>)

\* ConColorToARGB(ConColor(spawn)): one of the consider colors (yellow)
ConColorOf(sp) == <<255, 255, 0>>

\* MapObjectSpawn::GetSpawnColor()
GetSpawnColor(m, o) ==
    LET t == m.objs[o].m_type
        sp == m.objs[o].handle
    IN IF sp = NULL THEN NoColor
       ELSE CASE t = "PC" ->
                   IF IsOptionEnabled(m, "PCConColor") THEN ConColorOf(sp)
                   ELSE OptionColor(m, "PC")
              [] t = "NPC" ->
                   IF IsOptionEnabled(m, "NPCConColor") THEN ConColorOf(sp)
                   ELSE OptionColor(m, "NPC")
              [] t = "CORPSE" ->
                   IF m.spawnInfo[sp].deity = 0 THEN OptionColor(m, "NPCCorpse")
                   ELSE OptionColor(m, "PCCorpse")
              [] t = "UNTARGETABLE" -> OptionColor(m, "Untargetable")
              [] t = "CHEST" -> OptionColor(m, "Chest")
              [] t = "TRIGGER" -> OptionColor(m, "Trigger")
              [] t = "TIMER" -> OptionColor(m, "Timer")
              [] t = "TRAP" -> OptionColor(m, "Trap")
              [] t = "ITEM" -> OptionColor(m, "Ground")
              [] t = "MOUNT" -> OptionColor(m, "Mount")
              [] t = "PET" -> OptionColor(m, "Pet")
              [] t = "AURA" -> OptionColor(m, "Aura")
              [] t = "OBJECT" -> OptionColor(m, "Object")
              [] t = "BANNER" -> OptionColor(m, "Banner")
              [] t = "CAMPFIRE" -> OptionColor(m, "Campfire")
              [] t = "MERCENARY" -> OptionColor(m, "Mercenary")
              [] OTHER -> NoColor

\* MapObjectSpawn::GetMapFilter()
SpawnGetMapFilter(m, o) ==
    LET t == m.objs[o].m_type
    IN CASE t = "PC" -> "PC"
         [] t = "NPC" ->
              IF /\ IsOptionEnabled(m, "Named")
                 /\ SpawnMatchesSearch(m, MapFilterNamed, m.objs[o].handle)
              THEN "Named" ELSE "NPC"
         [] t = "CORPSE" -> "Corpse"
         [] t = "ITEM" -> "Ground"
         [] t = "UNTARGETABLE" -> "Untargetable"
         [] t = "TIMER" -> "Timer"
         [] t = "TRAP" -> "Trap"
         [] t = "TRIGGER" -> "Trigger"
         [] t = "CHEST" -> "Chest"
         [] t = "PET" -> "Pet"
         [] t = "MOUNT" -> "Mount"
         [] t = "AURA" -> "Aura"
         [] t = "OBJECT" -> "Object"
         [] t = "BANNER" -> "Banner"
         [] OTHER -> Invalid

\* virtual GetMapFilter()
GetMapFilter(m, o) ==
    CASE m.objs[o].kind = "spawn" -> SpawnGetMapFilter(m, o)
      [] m.objs[o].kind = "ground" -> "Ground"
      [] OTHER -> Invalid

\* option.Marker of GetMapFilterOption(filter); the Invalid option has None
OptionMarker(m, filter) == IF filter = Invalid THEN "None" ELSE m.Marker[filter]

\* MapObject::GenerateMarker()
GenerateMarker(m, o) ==
    IF ~IsOptionEnabled(m, "Marker")
    THEN m
    ELSE With(OptionMarker(m, GetMapFilter(m, o)), LAMBDA mk :
            IF mk = "None"
            THEN [m EXCEPT !.objs[o].m_marker = mk]
            ELSE UpdateMarker(
                    NewMarkerLines([m EXCEPT !.objs[o].m_marker = mk,
                                             !.objs[o].m_markerLines = <<>>],
                                   o, GetNumMarkerSides(mk)), o))

\* a base Update that leaves the label where it was
BaseUpdate_NoSync(m, o) ==
    With(IF m.objs[o].m_highlight THEN SetColor(m, o, HighlightColor) ELSE m, LAMBDA m2 :
        IF IsOptionEnabled(m2, "Marker") THEN UpdateMarker(m2, o) ELSE RemoveMarker(m2, o))

\* MapObject::Update(forced): the base part
BaseUpdate(m, o) ==
    With(IF m.objs[o].m_label # NULL
         THEN [m EXCEPT !.labels[m.objs[o].m_label].Location = RenderPoint(m.objs[o].m_pos)]
         ELSE m, LAMBDA m1 :
    With(IF m1.objs[o].m_highlight THEN SetColor(m1, o, HighlightColor) ELSE m1, LAMBDA m2 :
        IF IsOptionEnabled(m2, "Marker") THEN UpdateMarker(m2, o) ELSE RemoveMarker(m2, o)))

\* a predicate whose Named sub-filter adds to the NPC filter
CanDisplaySpawnObject_NamedAdds(m, type, sp) ==
    IF sp = m.pTarget /\ IsOptionEnabled(m, "Target") THEN TRUE
    ELSE IF IsOptionEnabled(m, "Custom")
         THEN SpawnMatchesSearch(m, MapFilterCustom, sp)
    ELSE CASE type = "PC" -> IsOptionEnabled(m, "PC")
           [] type = "NPC" ->
                \/ IsOptionEnabled(m, "NPC")
                \/ IsOptionEnabled(m, "Named") /\ IsNamed(m, sp)
           [] type = "CORPSE" ->
                IF m.spawnInfo[sp].deity = 0 THEN IsOptionEnabled(m, "NPCCorpse")
                ELSE IsOptionEnabled(m, "PCCorpse")
           [] type = "ITEM" -> IsOptionEnabled(m, "Ground")
           [] type = "UNTARGETABLE" -> IsOptionEnabled(m, "Untargetable")
           [] type = "TIMER" -> IsOptionEnabled(m, "Timer")
           [] type = "TRAP" -> IsOptionEnabled(m, "Trap")
           [] type = "TRIGGER" -> IsOptionEnabled(m, "Trigger")
           [] type = "CHEST" -> IsOptionEnabled(m, "Chest")
           [] type = "PET" -> IsOptionEnabled(m, "Pet")
           [] type = "MOUNT" -> IsOptionEnabled(m, "Mount")
           [] type = "AURA" -> IsOptionEnabled(m, "Aura")
           [] type = "OBJECT" -> IsOptionEnabled(m, "Object")
           [] type = "BANNER" -> IsOptionEnabled(m, "Banner")
           [] type = "CAMPFIRE" -> IsOptionEnabled(m, "Campfire")
           [] type = "MERCENARY" -> IsOptionEnabled(m, "Mercenary")
           [] type = "FLYER" -> FALSE
           [] OTHER -> TRUE

\* CanDisplaySpawnObject(type, spawn): the category-visibility predicate
CanDisplaySpawnObject(m, type, sp) ==
    IF sp = m.pTarget /\ IsOptionEnabled(m, "Target") THEN TRUE
    ELSE IF IsOptionEnabled(m, "Custom")
         THEN SpawnMatchesSearch(m, MapFilterCustom, sp)
    ELSE CASE type = "PC" -> IsOptionEnabled(m, "PC")
           [] type = "NPC" ->
                IF IsOptionEnabled(m, "Named") THEN IsNamed(m, sp)
                ELSE IsOptionEnabled(m, "NPC")
           [] type = "CORPSE" ->
                IF m.spawnInfo[sp].deity = 0 THEN IsOptionEnabled(m, "NPCCorpse")
                ELSE IsOptionEnabled(m, "PCCorpse")
           [] type = "ITEM" -> IsOptionEnabled(m, "Ground")
           [] type = "UNTARGETABLE" -> IsOptionEnabled(m, "Untargetable")
           [] type = "TIMER" -> IsOptionEnabled(m, "Timer")
           [] type = "TRAP" -> IsOptionEnabled(m, "Trap")
           [] type = "TRIGGER" -> IsOptionEnabled(m, "Trigger")
           [] type = "CHEST" -> IsOptionEnabled(m, "Chest")
           [] type = "PET" -> IsOptionEnabled(m, "Pet")
           [] type = "MOUNT" -> IsOptionEnabled(m, "Mount")
           [] type = "AURA" -> IsOptionEnabled(m, "Aura")
           [] type = "OBJECT" -> IsOptionEnabled(m, "Object")
           [] type = "BANNER" -> IsOptionEnabled(m, "Banner")
           [] type = "CAMPFIRE" -> IsOptionEnabled(m, "Campfire")
           [] type = "MERCENARY" -> IsOptionEnabled(m, "Mercenary")
           [] type = "FLYER" -> FALSE
           [] OTHER -> TRUE

\* a CanDisplayObject that leaves the explicit flag out
CanDisplayObject_NoExplicit(m, o) ==
    CASE m.objs[o].kind = "spawn" ->
            CanDisplaySpawnObject(m, m.objs[o].m_type, m.objs[o].handle)
      [] m.objs[o].kind = "ground" -> IsOptionEnabled(m, "Ground")
      [] m.objs[o].kind = "loc" -> TRUE
      [] OTHER -> FALSE

\* virtual CanDisplayObject(): the base returns false; the spawn variant is
\* explicit or the visibility predicate; the ground variant the Ground filter
CanDisplayObject(m, o) ==
    CASE m.objs[o].kind = "spawn" ->
            \/ m.objs[o].m_explicit
            \/ CanDisplaySpawnObject(m, m.objs[o].m_type, m.objs[o].handle)
      [] m.objs[o].kind = "ground" -> IsOptionEnabled(m, "Ground")
      [] m.objs[o].kind = "loc" -> TRUE
      [] OTHER -> FALSE

\* a spawn Update that does not retry an empty text
SpawnUpdate_NoRetry(m, o, forced) ==
    With([m EXCEPT !.objs[o].m_type = GetSpawnType(m, m.objs[o].handle),
                   !.objs[o].m_pos = m.spawnInfo[m.objs[o].handle].pos], LAMBDA m1 :
    With(IF m.objs[o].m_type # m1.objs[o].m_type \/ forced
         THEN With(SetText(m1, o, FormatString(m1, o, MapNameString)), LAMBDA t :
                  SetColor(t, o, GetSpawnColor(t, o)))
         ELSE IF ~m1.objs[o].m_highlight
              THEN SetColor(m1, o, GetSpawnColor(m1, o))
              ELSE m1, LAMBDA m2 :
    With(BaseUpdate(m2, o), LAMBDA m3 :
        IF m3.pLastTarget = o
        THEN With(SetColor(m3, o, OptionColor(m3, "Target")), LAMBDA t :
                 SetText(t, o, FormatString(t, o, t.MapTargetNameString)))
        ELSE m3)))

\* MapObjectSpawn::Update(forced)
SpawnUpdate(m, o, forced) ==
    With([m EXCEPT !.objs[o].m_type = GetSpawnType(m, m.objs[o].handle),
                   !.objs[o].m_pos = m.spawnInfo[m.objs[o].handle].pos], LAMBDA m1 :
    With(IF m.objs[o].m_type # m1.objs[o].m_type \/ forced \/ m1.objs[o].m_text = <<>>
         THEN With(SetText(m1, o, FormatString(m1, o, MapNameString)), LAMBDA t :
                  SetColor(t, o, GetSpawnColor(t, o)))
         ELSE IF ~m1.objs[o].m_highlight
              THEN SetColor(m1, o, GetSpawnColor(m1, o))
              ELSE m1, LAMBDA m2 :
    With(BaseUpdate(m2, o), LAMBDA m3 :
        IF m3.pLastTarget = o
        THEN With(SetColor(m3, o, OptionColor(m3, "Target")), LAMBDA t :
                 SetText(t, o, FormatString(t, o, t.MapTargetNameString)))
        ELSE m3)))

\* MapObjectGroundSpawn::Update(forced): ground items do not move
GroundUpdate(m, o, forced) ==
    BaseUpdate([m EXCEPT !.objs[o].m_pos = <<0, 0, 0>>], o)

\* the name under which `circles` holds the m_circle member of the
\* location object o
LocCircle(o) == "m_circle" \o ToString(o)

\* MQColor::GetInverted()
GetInverted(Color) == <<255 - Color[1], 255 - Color[2], 255 - Color[3]>>

\* a RemoveMapObject that frees the lines of the X and leaves the circle
MapLoc_RemoveMapObject_KeepsCircle(m, o) ==
    [DeleteLines(m, m.objs[o].m_lines) EXCEPT !.objs[o].m_lines = <<>>]

\* MapObjectMapLoc::RemoveMapObject(): free the lines of the X, clear the
\* circle
MapLoc_RemoveMapObject(m, o) ==
    Clear([DeleteLines(m, m.objs[o].m_lines) EXCEPT !.objs[o].m_lines = <<>>],
          LocCircle(o))

\* one line of the X: InitLine(), its color and its ends, then
\* m_lines.push_back(line)
AddXLine(m, o, Color, Start, End) ==
    With(InitLine(m), LAMBDA m1 :
        [m1 EXCEPT !.lines[m1.gpLineList].Color = Color,
                   !.lines[m1.gpLineList].Start = Start,
                   !.lines[m1.gpLineList].End = End,
                   !.objs[o].m_lines = Append(@, m1.gpLineList)])

\* the loop "Create the X" of UpdateMapObject: two lines for xWidth = 1,
\* four for every further xWidth
RECURSIVE XLoop(_, _, _, _)
XLoop(m, o, xWidth, colorARGB) ==
    LET params == m.mapLocs[m.objs[o].handle].m_mapLocParams
        X == -m.objs[o].m_pos[1]
        Y == -m.objs[o].m_pos[2]
        Z == m.objs[o].m_pos[3]
        s == params.lineSize
        w == xWidth - 1
    IN IF xWidth > params.width
       THEN m
       ELSE IF xWidth = 1
       THEN XLoop(AddXLine(AddXLine(m, o, colorARGB, <<X - s, Y - s, Z>>, <<X + s, Y + s, Z>>),
                           o, colorARGB, <<X - s, Y + s, Z>>, <<X + s, Y - s, Z>>),
                  o, xWidth + 1, colorARGB)
       ELSE XLoop(AddXLine(AddXLine(AddXLine(AddXLine(m,
                    o, colorARGB, <<X - s, Y - s + w, Z>>, <<X + s - w, Y + s, Z>>),
                    o, colorARGB, <<X - s + w, Y + s, Z>>, <<X + s, Y - s + w, Z>>),
                    o, colorARGB, <<X - s + w, Y - s, Z>>, <<X + s, Y + s - w, Z>>),
                    o, colorARGB, <<X - s, Y + s - w, Z>>, <<X + s - w, Y - s, Z>>),
                  o, xWidth + 1, colorARGB)

\* MapObjectMapLoc::UpdateMapObject(): drop the old lines, draw the X, then
\* the circle if the radius is positive
UpdateMapObject(m, o) ==
    With(m.mapLocs[m.objs[o].handle], LAMBDA loc :
    With(XLoop(MapLoc_RemoveMapObject(m, o), o, 1,
               IF loc.m_isSelected THEN GetInverted(loc.m_mapLocParams.color)
               ELSE loc.m_mapLocParams.color), LAMBDA m1 :
        IF loc.m_mapLocParams.circleRadius > 0
        THEN UpdateCircle(m1, LocCircle(o), loc.m_mapLocParams.circleColor,
                          loc.m_mapLocParams.circleRadius,
                          m1.objs[o].m_pos[1], m1.objs[o].m_pos[2], m1.objs[o].m_pos[3])
        ELSE Clear(m1, LocCircle(o))))

\* MapObjectMapLoc::Update(forced)
MapObjectMapLoc_Update(m, o, forced) ==
    With(BaseUpdate(m, o), LAMBDA m1 :
        IF forced /\ m1.objs[o].m_initialized THEN UpdateMapObject(m1, o) ELSE m1)

\* virtual Update(forced)
Update(m, o, forced) ==
    CASE m.objs[o].kind = "spawn" -> SpawnUpdate(m, o, forced)
      [] m.objs[o].kind = "ground" -> GroundUpdate(m, o, forced)
      [] m.objs[o].kind = "loc" -> MapObjectMapLoc_Update(m, o, forced)
      [] OTHER -> BaseUpdate(m, o)

\* MapObjectSpawn::GenerateVector(): UpdateVector() runs while m_vector is
\* still null, so the new line keeps the coordinates InitLine left in it
GenerateVector(m, o) ==
    With(InitLine(m), LAMBDA m1 :
        [m1 EXCEPT !.lines[m1.gpLineList].Color = m1.labels[m1.objs[o].m_label].Color,
                   !.objs[o].m_vector = m1.gpLineList])

\* MapObject::PostInit() and its overrides
PostInit(m, o) ==
    With(Update(GenerateMarker(IF m.objs[o].kind = "loc"
                               THEN [m EXCEPT !.objs[o].m_initialized = TRUE]
                               ELSE m, o), o, TRUE), LAMBDA m1 :
        IF m.objs[o].kind = "spawn" /\ IsOptionEnabled(m1, "Vector")
        THEN GenerateVector(m1, o)
        ELSE m1)

\* MapObjectSpawn::MapObjectSpawn(pSpawn, Explicit)
MapObjectSpawn_ctor(m, sp, explicit) ==
    With(MapObject_ctor(m, "spawn", sp, GetSpawnType(m, sp), explicit), LAMBDA m0 :
    With(m0.gpActiveMapObjects, LAMBDA o :
    With(GenerateLabel(m0, o), LAMBDA m1 :
    With(SetText(m1, o, FormatString(m1, o, MapNameString)), LAMBDA m2 :
    With(SetColor(m2, o, GetSpawnColor(m2, o)), LAMBDA m3 :
        [m3 EXCEPT !.SpawnMap = Put(@, sp, o)])))))

\* MapObjectGroundSpawn::MapObjectGroundSpawn(pGroundItem)
MapObjectGroundSpawn_ctor(m, gi) ==
    With(MapObject_ctor(m, "ground", gi, "ITEM", FALSE), LAMBDA m0 :
    With(m0.gpActiveMapObjects, LAMBDA o :
    With(GenerateLabel(m0, o), LAMBDA m1 :
    With(SetText(m1, o, FormatString(m1, o, MapNameString)), LAMBDA m2 :
    With(SetColor(m2, o, OptionColor(m2, "Ground")), LAMBDA m3 :
        [m3 EXCEPT !.GroundItemMap = Put(@, gi, o)])))))

\* a destructor that patches the successor only
MapObject_dtor_NoPredecessorPatch(m, o) ==
    With(IF m.objs[o].m_label # NULL
         THEN [DeleteLabel(m, m.objs[o].m_label) EXCEPT
                  !.LabelMap = Drop(@, m.objs[o].m_label), !.objs[o].m_label = NULL]
         ELSE m, LAMBDA m1 :
    With(IF m1.objs[o].m_vector # NULL
         THEN [DeleteLine(m1, m1.objs[o].m_vector) EXCEPT !.objs[o].m_vector = NULL]
         ELSE m1, LAMBDA m2 :
    With(RemoveMarker(m2, o), LAMBDA m3 :
        LET nx == m3.objs[o].m_pNext
            pv == m3.objs[o].m_pLast
            o1 == IF nx # NULL THEN [m3.objs EXCEPT ![nx].m_pLast = pv] ELSE m3.objs
        IN [m3 EXCEPT !.objs = Drop(o1, o),
                      !.gpActiveMapObjects = IF pv # NULL THEN @ ELSE nx])))

\* MapObject::~MapObject(): free the label, the vector and the marker lines,
\* then unlink from the active list and free the object
MapObject_dtor(m, o) ==
    With(IF m.objs[o].m_label # NULL
         THEN [DeleteLabel(m, m.objs[o].m_label) EXCEPT
                  !.LabelMap = Drop(@, m.objs[o].m_label), !.objs[o].m_label = NULL]
         ELSE m, LAMBDA m1 :
    With(IF m1.objs[o].m_vector # NULL
         THEN [DeleteLine(m1, m1.objs[o].m_vector) EXCEPT !.objs[o].m_vector = NULL]
         ELSE m1, LAMBDA m2 :
    With(RemoveMarker(m2, o), LAMBDA m3 :
        LET nx == m3.objs[o].m_pNext
            pv == m3.objs[o].m_pLast
            o1 == IF nx # NULL THEN [m3.objs EXCEPT ![nx].m_pLast = pv] ELSE m3.objs
            o2 == IF pv # NULL THEN [o1 EXCEPT ![pv].m_pNext = nx] ELSE o1
        IN [m3 EXCEPT !.objs = Drop(o2, o),
                      !.gpActiveMapObjects = IF pv # NULL THEN @ ELSE nx])))

\* a spawn destructor that leaves the entry of the handle in SpawnMap
MapObjectSpawn_dtor_KeepsEntry(m, o) ==
    With([m EXCEPT !.pLastTarget = IF @ = o THEN NULL ELSE @], LAMBDA m1 :
        MapObject_dtor(IF m1.objs[o].m_vector # NULL
                       THEN [DeleteLine(m1, m1.objs[o].m_vector) EXCEPT
                                !.objs[o].m_vector = NULL]
                       ELSE m1, o))

\* a destructor that leaves pLastTarget alone
MapObjectSpawn_dtor_KeepsTarget(m, o) ==
    With([m EXCEPT !.SpawnMap = Drop(@, m.objs[o].handle)], LAMBDA m1 :
        MapObject_dtor(IF m1.objs[o].m_vector # NULL
                       THEN [DeleteLine(m1, m1.objs[o].m_vector) EXCEPT
                                !.objs[o].m_vector = NULL]
                       ELSE m1, o))

\* MapObjectSpawn::~MapObjectSpawn(), then the base destructor
MapObjectSpawn_dtor(m, o) ==
    With([m EXCEPT !.SpawnMap = Drop(@, m.objs[o].handle),
                   !.pLastTarget = IF @ = o THEN NULL ELSE @], LAMBDA m1 :
        MapObject_dtor(IF m1.objs[o].m_vector # NULL
                       THEN [DeleteLine(m1, m1.objs[o].m_vector) EXCEPT
                                !.objs[o].m_vector = NULL]
                       ELSE m1, o))

\* MapObjectGroundSpawn::~MapObjectGroundSpawn(), then the base destructor
MapObjectGroundSpawn_dtor(m, o) ==
    MapObject_dtor([m EXCEPT !.GroundItemMap = Drop(m.GroundItemMap, m.objs[o].handle)], o)

\* MapObject::SetPosition(pos)
SetPosition(m, o, pos) ==
    IF m.objs[o].m_pos = pos THEN m ELSE Update([m EXCEPT !.objs[o].m_pos = pos], o, TRUE)

\* MapObjectMapLoc::MapObjectMapLoc(pMapLoc): `handle` holds m_mapLoc; the
\* members m_initialized, m_lines and m_circle come with the object
MapObjectMapLoc_ctor(m, pMapLoc) ==
    With(MapObject_ctor(m, "loc", pMapLoc, "NONE", FALSE), LAMBDA m0 :
    With(m0.gpActiveMapObjects, LAMBDA o :
    With([m0 EXCEPT !.objs[o] = @ @@ [m_initialized |-> FALSE, m_lines |-> <<>>],
                    !.circles = Put(@, LocCircle(o), MapCircle_ctor)], LAMBDA m1 :
        Update(GenerateLabel(m1, o), o, TRUE))))

\* MapObjectMapLoc::~MapObjectMapLoc(): tell the template, free the lines
\* and the circle, then the members and the base destructor
MapObjectMapLoc_dtor(m, o) ==
    With(MapLoc_RemoveMapObject(
            [m EXCEPT !.mapLocs[m.objs[o].handle].m_mapObject = NULL], o), LAMBDA m1 :
        [MapObject_dtor(m1, o) EXCEPT !.circles = Drop(@, LocCircle(o))])

\* MapLocTemplate::UpdateLabel(): "<index>: <label>" or "<index>"
UpdateLabel(m, t) ==
    IF m.mapLocs[t].m_mapObject = NULL
    THEN m
    ELSE SetText(m, m.mapLocs[t].m_mapObject,
                 IF m.mapLocs[t].m_label # <<>>
                 THEN <<ToString(m.mapLocs[t].m_index), ":", " ">> \o m.mapLocs[t].m_label
                 ELSE <<ToString(m.mapLocs[t].m_index)>>)

\* MapLocTemplate::CreateMapObject()
CreateMapObject(m, t) ==
    IF m.mapLocs[t].m_mapObject # NULL
    THEN m
    ELSE With(MapObjectMapLoc_ctor(m, t), LAMBDA m1 :
         With(m1.gpActiveMapObjects, LAMBDA newLoc :
         With(PostInit(SetPosition(m1, newLoc, m1.mapLocs[t].m_pos), newLoc), LAMBDA m2 :
            UpdateLabel([m2 EXCEPT !.mapLocs[t].m_mapObject = newLoc], t))))

\* MapLocTemplate::MapLocTemplate(params, label, tag, pos, isDefault)
MapLocTemplate_ctor(m, params, label, tag, pos, isDefault) ==
    With(NewAddr(m.mapLocs), LAMBDA t :
        CreateMapObject(
            [m EXCEPT !.mapLocs = Put(@, t,
                [m_index |-> -1, m_mapLocParams |-> params, m_label |-> label,
                 m_tag |-> tag, m_pos |-> pos, m_isCreatedFromDefaultLoc |-> isDefault,
                 m_mapObject |-> NULL, m_isSelected |-> FALSE])], t))

\* MapLocTemplate::~MapLocTemplate(): delete m_mapObject, free the template
MapLocTemplate_dtor(m, t) ==
    With(IF m.mapLocs[t].m_mapObject # NULL
         THEN MapObjectMapLoc_dtor(m, m.mapLocs[t].m_mapObject)
         ELSE m, LAMBDA m1 :
        [m1 EXCEPT !.mapLocs = Drop(@, t)])

\* MapLocTemplate::SetIndex(index)
SetIndex(m, t, index) ==
    IF m.mapLocs[t].m_index = index
    THEN m
    ELSE UpdateLabel([m EXCEPT !.mapLocs[t].m_index = index], t)

\* UpdateMapLocIndexes(): SetIndex(i + 1) down the vector
RECURSIVE UpdateMapLocIndexes(_, _)
UpdateMapLocIndexes(m, i) ==
    IF i > Len(m.gMapLocTemplates)
    THEN m
    ELSE UpdateMapLocIndexes(SetIndex(m, m.gMapLocTemplates[i], i), i + 1)

\* AddMapLoc(mapLoc)
AddMapLoc(m, t) ==
    With(SetIndex(m, t, Len(m.gMapLocTemplates) + 1), LAMBDA m1 :
        [m1 EXCEPT !.gMapLocTemplates = Append(@, t)])

\* a DeleteMapLoc that erases without renumbering
DeleteMapLoc_NoRenumber(m, t) ==
    IF t \notin {m.gMapLocTemplates[i] : i \in DOMAIN m.gMapLocTemplates}
    THEN m
    ELSE [MapLocTemplate_dtor(m, t) EXCEPT
            !.gMapLocTemplates = SelectSeq(@, LAMBDA x : x # t)]

\* DeleteMapLoc(mapLoc): erase it from the vector (which destroys it), then
\* renumber
DeleteMapLoc(m, t) ==
    IF t \notin {m.gMapLocTemplates[i] : i \in DOMAIN m.gMapLocTemplates}
    THEN UpdateMapLocIndexes(m, 1)
    ELSE UpdateMapLocIndexes(
            [MapLocTemplate_dtor(m, t) EXCEPT
                !.gMapLocTemplates = SelectSeq(@, LAMBDA x : x # t)], 1)

\* MapLocTemplate::SetSelected(selected): a change redraws the object
SetSelected(m, t, selected) ==
    IF m.mapLocs[t].m_isSelected = selected
    THEN m
    ELSE Update([m EXCEPT !.mapLocs[t].m_isSelected = selected],
                m.mapLocs[t].m_mapObject, TRUE)

\* the destructors of the templates a vector erase or clear drops
RECURSIVE DestroyTemplates(_, _)
DestroyTemplates(m, ts) ==
    IF ts = <<>> THEN m ELSE DestroyTemplates(MapLocTemplate_dtor(m, Head(ts)), Tail(ts))

\* DeleteSelectedMapLocs(): erase the selected templates, then renumber
DeleteSelectedMapLocs(m) ==
    With(SelectSeq(m.gMapLocTemplates, LAMBDA x : m.mapLocs[x].m_isSelected), LAMBDA gone :
        UpdateMapLocIndexes(
            [DestroyTemplates(m, gone) EXCEPT
                !.gMapLocTemplates = SelectSeq(@, LAMBDA x : ~m.mapLocs[x].m_isSelected)], 1))

\* DeleteAllMapLocs(): gMapLocTemplates.clear()
DeleteAllMapLocs(m) ==
    [DestroyTemplates(m, m.gMapLocTemplates) EXCEPT !.gMapLocTemplates = <<>>]

\* CreateAllMapLocs(): CreateMapObject() down the vector
RECURSIVE CreateMapLocsFrom(_, _)
CreateMapLocsFrom(m, i) ==
    IF i > Len(m.gMapLocTemplates)
    THEN m
    ELSE CreateMapLocsFrom(CreateMapObject(m, m.gMapLocTemplates[i]), i + 1)

CreateAllMapLocs(m) == CreateMapLocsFrom(m, 1)

\* GetMapLocByIndex(index)
GetMapLocByIndex(m, index) ==
    IF index > 0 /\ index <= Len(m.gMapLocTemplates)
    THEN m.gMapLocTemplates[index]
    ELSE NULL

\* RemoveMapObject(pMapSpawn): delete through the virtual destructor
RemoveMapObject(m, o) ==
    CASE m.objs[o].kind = "spawn" -> MapObjectSpawn_dtor(m, o)
      [] m.objs[o].kind = "ground" -> MapObjectGroundSpawn_dtor(m, o)
      [] m.objs[o].kind = "loc" -> MapObjectMapLoc_dtor(m, o)
      [] OTHER -> MapObject_dtor(m, o)

-----------------------------------------------------------------------------
(* Factory functions and the object index (map_object.cpp, map_api.cpp).   *)

\* a MakeMapObject that returns the object without PostInit
MakeMapObject_NoPostInit(m, sp, explicit) ==
    IF ~explicit /\ ~CanDisplaySpawnObject(m, GetSpawnType(m, sp), sp)
    THEN m
    ELSE MapObjectSpawn_ctor(m, sp, explicit)

\* MakeMapObject(pSpawn, Explicit)
MakeMapObject(m, sp, explicit) ==
    IF ~explicit /\ ~CanDisplaySpawnObject(m, GetSpawnType(m, sp), sp)
    THEN m
    ELSE With(MapObjectSpawn_ctor(m, sp, explicit), LAMBDA m1 :
            PostInit(m1, m1.gpActiveMapObjects))

\* what MakeMapObject(pSpawn, Explicit) returns (the new head, or null)
MakeMapObjectResult(m, sp, explicit) ==
    IF ~explicit /\ ~CanDisplaySpawnObject(m, GetSpawnType(m, sp), sp)
    THEN NULL
    ELSE NewAddr(m.objs)

\* FindMapObject(pSpawn)
FindMapObject(m, sp) ==
    IF sp # NULL /\ sp \in DOMAIN m.SpawnMap THEN m.SpawnMap[sp] ELSE NULL

\* MakeMapObject(pGroundItem)
MakeGroundObject(m, gi) ==
    IF ~IsOptionEnabled(m, "Ground")
    THEN m
    ELSE With(MapObjectGroundSpawn_ctor(m, gi), LAMBDA m1 :
            PostInit(m1, m1.gpActiveMapObjects))

\* FindMapObject(pGroundItem)
FindGroundObject(m, gi) ==
    IF gi # NULL /\ gi \in DOMAIN m.GroundItemMap THEN m.GroundItemMap[gi] ELSE NULL

\* AddSpawn(pNewSpawn, ExplicitAllow)
AddSpawn(m, sp, explicit) == MakeMapObject(m, sp, explicit)

\* RemoveSpawn(pSpawn)
RemoveSpawn(m, sp) ==
    With(FindMapObject(m, sp), LAMBDA o : IF o # NULL THEN RemoveMapObject(m, o) ELSE m)

\* AddGroundItem(pGroundItem)
AddGroundItem(m, gi) == MakeGroundObject(m, gi)

\* RemoveGroundItem(pGroundItem)
RemoveGroundItem(m, gi) ==
    With(FindGroundObject(m, gi), LAMBDA o : IF o # NULL THEN RemoveMapObject(m, o) ELSE m)

\* MapObjects_Clear(): empty both maps, then delete the head until none is left
RECURSIVE DeleteAllObjects(_)
DeleteAllObjects(m) ==
    IF m.gpActiveMapObjects = NULL
    THEN m
    ELSE DeleteAllObjects(RemoveMapObject(m, m.gpActiveMapObjects))

MapObjects_Clear(m) ==
    DeleteAllObjects([m EXCEPT !.GroundItemMap = <<>>, !.SpawnMap = <<>>])

-----------------------------------------------------------------------------
(* The engine API (map_api.cpp).                                           *)

\* MapInit()
MapInit(m) ==
    Clear(Clear(Clear(Clear(Clear(Clear(m, "CastCircle"), "SpellCircle"),
        "TargetCircle"), "TargetMeleeCircle"), "CampCircle"), "PullCircle")

\* a MapClear that leaves the target line
MapClear_KeepsTargetLine(m) ==
    MapInit([MapObjects_Clear(m) EXCEPT !.pLastTarget = NULL])

\* MapClear(): every object, the target line and the circles; the splice
\* state (the attached flags, the host's heads) is not touched
MapClear(m) ==
    With([MapObjects_Clear(m) EXCEPT !.pLastTarget = NULL], LAMBDA m1 :
        MapInit(IF m1.pTargetLine # NULL
                THEN [DeleteLine(m1, m1.pTargetLine) EXCEPT !.pTargetLine = NULL]
                ELSE m1))

\* the walk of a list of handles in list order (ascending handle)
RECURSIVE WalkSpawns(_, _)
WalkSpawns(m, todo) ==
    IF todo = {} THEN m
    ELSE WalkSpawns(AddSpawn(m, Min(todo), FALSE), todo \ {Min(todo)})

RECURSIVE WalkGround(_, _)
WalkGround(m, todo) ==
    IF todo = {} THEN m
    ELSE WalkGround(AddGroundItem(m, Min(todo)), todo \ {Min(todo)})

\* MapGenerate(): nothing unless All is enabled; else an object for every
\* spawn of the spawn list the predicate admits and, if Ground is enabled,
\* for every ground item, and an object for every template without one
MapGenerate(m) ==
    IF ~IsOptionEnabled(m, "All")
    THEN m
    ELSE With(WalkSpawns(m, m.pSpawnList), LAMBDA m1 :
            CreateAllMapLocs(IF IsOptionEnabled(m1, "Ground")
                             THEN WalkGround(m1, m1.groundList) ELSE m1))

\* the local player's position, and GetMapFilterOption(o).Radius
LocalPos == <<1, 2, 3>>
OptionRadius(m, o) == m.Radius[o]
\* get_melee_range(refSpawn, target): clamped to [14, 75]; the lower clamp
get_melee_range(m, sp) == 14

\* a walk that forces no Update
Forced_Never(mapObject, pOldLastTarget, bTargetChanged) == FALSE

\* the walk of MapUpdate: bool forced = (mapObject == pOldLastTarget) &&
\* bTargetChanged
Forced(mapObject, pOldLastTarget, bTargetChanged) ==
    (mapObject = pOldLastTarget) /\ bTargetChanged

\* the object walk of MapUpdate: Update, then delete what cannot be displayed
RECURSIVE WalkObjects(_, _, _, _)
WalkObjects(m, mapObject, pOldLastTarget, bTargetChanged) ==
    IF mapObject = NULL
    THEN m
    ELSE With(Update(m, mapObject, Forced(mapObject, pOldLastTarget, bTargetChanged)),
              LAMBDA m1 :
            WalkObjects(IF ~CanDisplayObject(m1, mapObject)
                        THEN RemoveMapObject(m1, mapObject)
                        ELSE m1,
                        m1.objs[mapObject].m_pNext, pOldLastTarget, bTargetChanged))

\* one radius circle of MapUpdate: updated when shown, cleared otherwise
RadiusCircle(m, c, option, shown, pos) ==
    IF shown /\ IsOptionEnabled(m, option)
    THEN UpdateCircle(m, c, OptionColor(m, option), OptionRadius(m, option),
                      pos[1], pos[2], pos[3])
    ELSE Clear(m, c)

\* the target line of MapUpdate
TargetLine(m) ==
    IF IsOptionEnabled(m, "TargetLine")
    THEN With(IF m.pTargetLine = NULL
              THEN With(InitLine(m), LAMBDA t : [t EXCEPT !.pTargetLine = t.gpLineList])
              ELSE m, LAMBDA m1 :
            [m1 EXCEPT !.lines[m1.pTargetLine].Color = OptionColor(m, "TargetLine"),
                       !.lines[m1.pTargetLine].Start = RenderPoint(LocalPos),
                       !.lines[m1.pTargetLine].End = RenderPoint(m.spawnInfo[m.pTarget].pos)])
    ELSE IF m.pTargetLine # NULL
         THEN [DeleteLine(m, m.pTargetLine) EXCEPT !.pTargetLine = NULL]
         ELSE m

\* MapUpdate(): the target changed, so the old target's object is dropped
\* unless it can still be displayed, and pLastTarget is reset
ClearLastTarget(m) ==
    [(IF ~CanDisplayObject(m, m.pLastTarget)
      THEN RemoveMapObject(m, m.pLastTarget)
      ELSE m) EXCEPT !.pLastTarget = NULL]

\* a MapUpdate that takes the target's object only if there is one
FindOrMakeTarget_FindOnly(m, target) ==
    IF target # NULL /\ IsOptionEnabled(m, "Target")
    THEN [m EXCEPT !.pLastTarget = FindMapObject(m, target)]
    ELSE m

\* MapUpdate(): pLastTarget becomes the target's object, made if missing
FindOrMakeTarget(m, target) ==
    IF target # NULL /\ IsOptionEnabled(m, "Target")
    THEN With(FindMapObject(m, target), LAMBDA found :
            IF found # NULL
            THEN [m EXCEPT !.pLastTarget = found]
            ELSE [AddSpawn([m EXCEPT !.pLastTarget = NULL], target, FALSE) EXCEPT
                     !.pLastTarget = MakeMapObjectResult(m, target, FALSE)])
    ELSE m

\* MapUpdate(): the four circles around the local player and the camp
PlayerCircles(m) ==
    RadiusCircle(
        RadiusCircle(
            RadiusCircle(
                RadiusCircle(m, "CastCircle", "CastRadius", TRUE, LocalPos),
                "CampCircle", "CampRadius", TRUE, <<m.Camp[1], m.Camp[2], LocalPos[3]>>),
            "PullCircle", "PullRadius", TRUE, <<m.Pull[1], m.Pull[2], LocalPos[3]>>),
        "SpellCircle", "SpellRadius", TRUE, LocalPos)

\* MapUpdate(): with a target object, the target line and the target circles
TargetDecor(m, target) ==
    With(RadiusCircle(TargetLine(m), "TargetCircle", "TargetRadius", TRUE,
                      m.spawnInfo[target].pos), LAMBDA m9 :
        IF IsOptionEnabled(m9, "TargetMelee")
        THEN UpdateCircle(m9, "TargetMeleeCircle", OptionColor(m9, "TargetMelee"),
                          get_melee_range(m9, target), m.spawnInfo[target].pos[1],
                          m.spawnInfo[target].pos[2], m.spawnInfo[target].pos[3])
        ELSE Clear(m9, "TargetMeleeCircle"))

\* a MapUpdate that keeps the target line when the target is gone
NoTargetDecor_KeepsLine(m) == Clear(Clear(m, "TargetCircle"), "TargetMeleeCircle")

\* MapUpdate(): without one, the target circles and the target line go
NoTargetDecor(m) ==
    With(Clear(Clear(m, "TargetCircle"), "TargetMeleeCircle"), LAMBDA m8 :
        IF m8.pTargetLine # NULL
        THEN [DeleteLine(m8, m8.pTargetLine) EXCEPT !.pTargetLine = NULL]
        ELSE m8)

\* MapUpdate()
MapUpdate(m) ==
    IF ~m.pLocalPlayer
    THEN m
    ELSE With(m.pLastTarget # NULL /\ m.objs[m.pLastTarget].handle # m.pTarget,
              LAMBDA bTargetChanged :
         With(IF bTargetChanged THEN ClearLastTarget(m) ELSE m, LAMBDA m1 :
         With(FindOrMakeTarget(m1, m.pTarget), LAMBDA m2 :
         With(WalkObjects(m2, m2.gpActiveMapObjects, m.pLastTarget, bTargetChanged),
              LAMBDA m3 :
         With(PlayerCircles(m3), LAMBDA m7 :
            IF m7.pLastTarget # NULL /\ m.pTarget # NULL
            THEN TargetDecor(m7, m.pTarget)
            ELSE NoTargetDecor(m7))))))

\* the statements of MapAttach() after its null check, in program order
AttachStmts == 1..7

\* a MapAttach that links the label tail to the host's labels whatever the
\* NormalLabels filter says
MapAttachStmt_AlwaysLinks(m, k) ==
    CASE k = 1 /\ m.gpLabelList # NULL ->
            [m EXCEPT !.pActualLabelList = m.gameLabels]
      [] k = 2 /\ m.gpLabelList # NULL ->
            [m EXCEPT !.s_labelsAttached = TRUE]
      [] k = 3 /\ m.gpLabelList # NULL ->
            [m EXCEPT !.labels[m.gpLabelListTail].pNext = m.gameLabels]
      [] k = 4 /\ m.gpLabelList # NULL ->
            [m EXCEPT !.gameLabels = m.gpLabelList]
      [] k = 5 /\ m.gpLineList # NULL ->
            [m EXCEPT !.s_linesAttached = TRUE]
      [] k = 6 /\ m.gpLineList # NULL ->
            [m EXCEPT !.lines[m.gpLineListTail].pNext = m.gameLines]
      [] k = 7 /\ m.gpLineList # NULL ->
            [m EXCEPT !.gameLines = m.gpLineList]
      [] OTHER -> m

MapAttachStmt(m, k) ==
    CASE k = 1 /\ m.gpLabelList # NULL ->
            [m EXCEPT !.pActualLabelList = m.gameLabels]
      [] k = 2 /\ m.gpLabelList # NULL ->
            [m EXCEPT !.s_labelsAttached = TRUE]
      [] k = 3 /\ m.gpLabelList # NULL /\ IsOptionEnabled(m, "NormalLabels") ->
            [m EXCEPT !.labels[m.gpLabelListTail].pNext = m.gameLabels]
      [] k = 4 /\ m.gpLabelList # NULL ->
            [m EXCEPT !.gameLabels = m.gpLabelList]
      [] k = 5 /\ m.gpLineList # NULL ->
            [m EXCEPT !.s_linesAttached = TRUE]
      [] k = 6 /\ m.gpLineList # NULL ->
            [m EXCEPT !.lines[m.gpLineListTail].pNext = m.gameLines]
      [] k = 7 /\ m.gpLineList # NULL ->
            [m EXCEPT !.gameLines = m.gpLineList]
      [] OTHER -> m

RECURSIVE MapAttachFrom(_, _)
MapAttachFrom(m, k) ==
    IF k \notin AttachStmts THEN m ELSE MapAttachFrom(MapAttachStmt(m, k), k + 1)

\* MapAttach(): nothing while the host's list heads cannot be located
MapAttach(m) == IF ~m.s_mapViewMap THEN m ELSE MapAttachFrom(m, 1)

\* a MapDetach that leaves the host line head on the engine chain
MapDetach_KeepsLineHead(m) ==
    IF ~m.s_mapViewMap
    THEN m
    ELSE LET m1 == IF m.s_labelsAttached /\ m.gpLabelList # NULL
                   THEN [m EXCEPT !.gameLabels = m.pActualLabelList,
                                  !.labels[m.gpLabelListTail].pNext = NULL,
                                  !.s_labelsAttached = FALSE]
                   ELSE m
         IN IF m1.s_linesAttached /\ m1.gpLineList # NULL
            THEN [m1 EXCEPT !.lines[m1.gpLineListTail].pNext = NULL,
                            !.s_linesAttached = FALSE]
            ELSE m1

\* a MapDetach that restores without consulting the attached flags
MapDetach_Unguarded(m) ==
    IF ~m.s_mapViewMap
    THEN m
    ELSE LET m1 == IF m.gpLabelList # NULL
                   THEN [m EXCEPT !.gameLabels = m.pActualLabelList,
                                  !.labels[m.gpLabelListTail].pNext = NULL,
                                  !.s_labelsAttached = FALSE]
                   ELSE m
         IN IF m1.gpLineList # NULL
            THEN [m1 EXCEPT !.gameLines = m1.lines[m1.gpLineListTail].pNext,
                            !.lines[m1.gpLineListTail].pNext = NULL,
                            !.s_linesAttached = FALSE]
            ELSE m1

\* MapDetach(): restore only what the flags say was attached
MapDetach(m) ==
    IF ~m.s_mapViewMap
    THEN m
    ELSE LET m1 == IF m.s_labelsAttached /\ m.gpLabelList # NULL
                   THEN [m EXCEPT !.gameLabels = m.pActualLabelList,
                                  !.labels[m.gpLabelListTail].pNext = NULL,
                                  !.s_labelsAttached = FALSE]
                   ELSE m
         IN IF m1.s_linesAttached /\ m1.gpLineList # NULL
            THEN [m1 EXCEPT !.gameLines = m1.lines[m1.gpLineListTail].pNext,
                            !.lines[m1.gpLineListTail].pNext = NULL,
                            !.s_linesAttached = FALSE]
            ELSE m1

-----------------------------------------------------------------------------
(* The module callbacks and the frame hook (map_mod.cpp).                  *)

\* MapMod::OnSetGameState(gameState); the game has set its state already
OnSetGameState(m, gs) ==
    IF gs = GAMESTATE_INGAME
    THEN With(MapGenerate(MapClear([m EXCEPT !.gameState = gs])), LAMBDA m1 :
            [m1 EXCEPT !.m_mapActive = TRUE,
                       !.s_mapRenderEnabled = TRUE,
                       !.s_postDrawFaultCooldown = 0,
                       !.s_needsRegenerate = FALSE,
                       !.s_hadMapObjects = (m1.gpActiveMapObjects # NULL)])
    ELSE [MapClear([m EXCEPT !.gameState = gs, !.s_mapRenderEnabled = FALSE])
            EXCEPT !.m_mapActive = FALSE, !.s_hadMapObjects = FALSE]

\* MapMod::OnAddSpawn / OnRemoveSpawn / OnAddGroundItem / OnRemoveGroundItem
OnAddSpawn(m, sp) == IF m.m_mapActive THEN AddSpawn(m, sp, FALSE) ELSE m
OnRemoveSpawn(m, sp) == IF m.m_mapActive THEN RemoveSpawn(m, sp) ELSE m
OnAddGroundItem(m, gi) == IF m.m_mapActive THEN AddGroundItem(m, gi) ELSE m
OnRemoveGroundItem(m, gi) == IF m.m_mapActive THEN RemoveGroundItem(m, gi) ELSE m

\* the control points of PostDraw_MapLogic, each named after the statement
\* about to run; MapAttach is entered statement by statement
AttachPc == <<"attach1", "attach2", "attach3", "attach4", "attach5", "attach6",
              "attach7">>
AttachIndex(p) == CHOOSE k \in AttachStmts : AttachPc[k] = p

\* the value of the local `phase` while the statement at a control point runs
PhaseOf(p) ==
    CASE p = "SetMapViewMap" -> 1
      [] p = "MapUpdate" -> 2
      [] p \in Range(AttachPc) -> 3
      [] p = "PostDraw_Original" -> 4
      [] OTHER -> 5

\* a PostDraw_Detour without the populated-to-empty detection
PostDraw_Detour_NoDepletion(m) ==
    IF m.s_postDrawFaultCooldown > 0
    THEN [m EXCEPT !.s_postDrawFaultCooldown = @ - 1,
                   !.frameLog = <<"PostDraw_Original">>]
    ELSE IF ~(m.s_mapRenderEnabled /\ m.gameState = GAMESTATE_INGAME)
    THEN [m EXCEPT !.frameLog = <<"PostDraw_Original">>]
    ELSE IF ~m.pLocalPlayer
    THEN [(IF m.gpActiveMapObjects # NULL \/ m.gpLabelList # NULL \/ m.gpLineList # NULL
           THEN [MapClear(m) EXCEPT !.s_needsRegenerate = TRUE]
           ELSE m) EXCEPT !.frameLog = <<"PostDraw_Original">>]
    ELSE With(IF m.s_needsRegenerate
              THEN With(MapGenerate(MapClear(m)), LAMBDA g :
                      [g EXCEPT !.s_needsRegenerate = FALSE,
                                !.s_hadMapObjects = (g.gpActiveMapObjects # NULL)])
              ELSE m, LAMBDA m1 :
            [m1 EXCEPT !.pc = "SetMapViewMap", !.phase = 0, !.frameLog = <<>>])

\* a PostDraw_Detour whose regenerate records the index as populated
\* whatever MapGenerate produced
PostDraw_Detour_AssumesPopulated(m) ==
    IF m.s_postDrawFaultCooldown > 0
    THEN [m EXCEPT !.s_postDrawFaultCooldown = @ - 1,
                   !.frameLog = <<"PostDraw_Original">>]
    ELSE IF ~(m.s_mapRenderEnabled /\ m.gameState = GAMESTATE_INGAME)
    THEN [m EXCEPT !.frameLog = <<"PostDraw_Original">>]
    ELSE IF ~m.pLocalPlayer
    THEN [(IF m.gpActiveMapObjects # NULL \/ m.gpLabelList # NULL \/ m.gpLineList # NULL
           THEN [MapClear(m) EXCEPT !.s_needsRegenerate = TRUE]
           ELSE m) EXCEPT !.frameLog = <<"PostDraw_Original">>]
    ELSE With(IF m.s_needsRegenerate
              THEN With(MapGenerate(MapClear(m)), LAMBDA g :
                      [g EXCEPT !.s_needsRegenerate = FALSE,
                                !.s_hadMapObjects = TRUE])
              ELSE m, LAMBDA m1 :
            IF m1.gpActiveMapObjects # NULL
            THEN [m1 EXCEPT !.s_hadMapObjects = TRUE, !.pc = "SetMapViewMap",
                            !.phase = 0, !.frameLog = <<>>]
            ELSE IF m1.s_hadMapObjects
            THEN [m1 EXCEPT !.s_needsRegenerate = TRUE, !.s_hadMapObjects = FALSE,
                            !.frameLog = <<"PostDraw_Original">>]
            ELSE [m1 EXCEPT !.pc = "SetMapViewMap", !.phase = 0, !.frameLog = <<>>])

\* a PostDraw_Detour that goes on to the map logic in the invocation that
\* counts the cooldown down to zero
PostDraw_Detour_RetriesEarly(m) ==
    IF m.s_postDrawFaultCooldown > 1
    THEN [m EXCEPT !.s_postDrawFaultCooldown = @ - 1,
                   !.frameLog = <<"PostDraw_Original">>]
    ELSE IF ~(m.s_mapRenderEnabled /\ m.gameState = GAMESTATE_INGAME)
    THEN [m EXCEPT !.s_postDrawFaultCooldown = 0, !.frameLog = <<"PostDraw_Original">>]
    ELSE IF ~m.pLocalPlayer
    THEN [(IF m.gpActiveMapObjects # NULL \/ m.gpLabelList # NULL \/ m.gpLineList # NULL
           THEN [MapClear(m) EXCEPT !.s_needsRegenerate = TRUE]
           ELSE m) EXCEPT !.s_postDrawFaultCooldown = 0,
                          !.frameLog = <<"PostDraw_Original">>]
    ELSE With(IF m.s_needsRegenerate
              THEN With(MapGenerate(MapClear(m)), LAMBDA g :
                      [g EXCEPT !.s_needsRegenerate = FALSE,
                                !.s_hadMapObjects = (g.gpActiveMapObjects # NULL)])
              ELSE m, LAMBDA m1 :
            IF m1.gpActiveMapObjects # NULL
            THEN [m1 EXCEPT !.s_hadMapObjects = TRUE, !.pc = "SetMapViewMap",
                            !.s_postDrawFaultCooldown = 0,
                            !.phase = 0, !.frameLog = <<>>]
            ELSE IF m1.s_hadMapObjects
            THEN [m1 EXCEPT !.s_needsRegenerate = TRUE, !.s_hadMapObjects = FALSE,
                            !.s_postDrawFaultCooldown = 0,
                            !.frameLog = <<"PostDraw_Original">>]
            ELSE [m1 EXCEPT !.pc = "SetMapViewMap", !.phase = 0,
                            !.s_postDrawFaultCooldown = 0, !.frameLog = <<>>])

\* PostDraw_Detour up to its return or its call of PostDraw_MapLogic
PostDraw_Detour(m) ==
    IF m.s_postDrawFaultCooldown > 0
    THEN [m EXCEPT !.s_postDrawFaultCooldown = @ - 1,
                   !.frameLog = <<"PostDraw_Original">>]
    ELSE IF ~(m.s_mapRenderEnabled /\ m.gameState = GAMESTATE_INGAME)
    THEN [m EXCEPT !.frameLog = <<"PostDraw_Original">>]
    ELSE IF ~m.pLocalPlayer
    THEN [(IF m.gpActiveMapObjects # NULL \/ m.gpLabelList # NULL \/ m.gpLineList # NULL
           THEN [MapClear(m) EXCEPT !.s_needsRegenerate = TRUE]
           ELSE m) EXCEPT !.frameLog = <<"PostDraw_Original">>]
    ELSE With(IF m.s_needsRegenerate
              THEN With(MapGenerate(MapClear(m)), LAMBDA g :
                      [g EXCEPT !.s_needsRegenerate = FALSE,
                                !.s_hadMapObjects = (g.gpActiveMapObjects # NULL)])
              ELSE m, LAMBDA m1 :
            IF m1.gpActiveMapObjects # NULL
            THEN [m1 EXCEPT !.s_hadMapObjects = TRUE, !.pc = "SetMapViewMap",
                            !.phase = 0, !.frameLog = <<>>]
            ELSE IF m1.s_hadMapObjects
            THEN [m1 EXCEPT !.s_needsRegenerate = TRUE, !.s_hadMapObjects = FALSE,
                            !.frameLog = <<"PostDraw_Original">>]
            ELSE [m1 EXCEPT !.pc = "SetMapViewMap", !.phase = 0, !.frameLog = <<>>])

\* one statement of the __try block of PostDraw_MapLogic
MapLogicStep(m) ==
    LET p == m.pc
        m0 == [m EXCEPT !.phase = PhaseOf(p)]
    IN CASE p = "SetMapViewMap" ->
              [m0 EXCEPT !.s_mapViewMap = TRUE, !.pc = "MapUpdate",
                         !.frameLog = Append(@, "SetMapViewMap")]
         [] p = "MapUpdate" ->
              [MapUpdate(m0) EXCEPT !.pc = "attach1",
                                    !.frameLog = Append(@, "MapUpdate")]
         [] p \in Range(AttachPc) ->
              IF ~m0.s_mapViewMap
              THEN [m0 EXCEPT !.pc = "PostDraw_Original",
                              !.frameLog = Append(@, "MapAttach")]
              ELSE IF AttachIndex(p) = Len(AttachPc)
              THEN [MapAttachStmt(m0, AttachIndex(p)) EXCEPT
                        !.pc = "PostDraw_Original",
                        !.frameLog = Append(@, "MapAttach")]
              ELSE [MapAttachStmt(m0, AttachIndex(p)) EXCEPT
                        !.pc = AttachPc[AttachIndex(p) + 1]]
         [] p = "PostDraw_Original" ->
              [m0 EXCEPT !.pc = "MapDetach",
                         !.frameLog = Append(@, "PostDraw_Original")]
         [] p = "MapDetach" ->
              [MapDetach(m0) EXCEPT !.pc = "log", !.frameLog = Append(@, "MapDetach")]
         [] OTHER ->
              [m0 EXCEPT !.pc = "idle", !.frameLog = Append(@, "return")]

\* an __except block that clears the map whatever the phase
FaultHandlerEntry_AlwaysClear(m) ==
    With([m EXCEPT !.phase = PhaseOf(m.pc), !.frameLog = Append(@, "fault")], LAMBDA m0 :
        [MapClear(m0) EXCEPT !.s_needsRegenerate = TRUE,
                             !.s_postDrawFaultCooldown = FaultCooldownFrames])

\* an __except block that clears without scheduling the regenerate
FaultHandlerEntry_NoRegenerate(m) ==
    With([m EXCEPT !.phase = PhaseOf(m.pc), !.frameLog = Append(@, "fault")], LAMBDA m0 :
        [(IF m0.phase <= 2 THEN MapClear(m0) ELSE m0)
            EXCEPT !.s_postDrawFaultCooldown = FaultCooldownFrames])

\* the __except block of PostDraw_MapLogic up to its MapDetach: the
\* statement at the control point faulted before it took effect
FaultHandlerEntry(m) ==
    With([m EXCEPT !.phase = PhaseOf(m.pc), !.frameLog = Append(@, "fault")], LAMBDA m0 :
        [(IF m0.phase <= 2 THEN [MapClear(m0) EXCEPT !.s_needsRegenerate = TRUE] ELSE m0)
            EXCEPT !.s_postDrawFaultCooldown = FaultCooldownFrames])

\* an __except block that returns without MapDetach
FaultHandlerExit_NoDetach(m) == [m EXCEPT !.pc = "idle"]

\* the rest of the __except block: MapDetach, return 0
FaultHandlerExit(m) ==
    [MapDetach(m) EXCEPT !.pc = "idle", !.frameLog = Append(@, "MapDetach")]

-----------------------------------------------------------------------------
(* The commands (map_commands.cpp).                                        *)

\* the command arguments of the model and what the parsers make of them:
\* _strnicmp(szRest, "color", 5), GetArg/GetIntFromString, GetFloatFromString
ColorRests == {"color", "color 10 20 30"}
RadiusRests == {"0", "30"}
GetFloatFromString(szValue) == IF szValue = "30" THEN 30 ELSE 0
ParsedColor(szValue) == <<10, 20, 30>>

\* MapFilterSetting(pChar, nMapFilter, szValue) for a Toggle option:
\* "hide", "show", anything else toggles; refused while a requirement is off
MapFilterSetting(m, o, szValue) ==
    IF ~m.pLocalPlayer \/ ~RequirementsMet(m, o)
    THEN m
    ELSE [m EXCEPT !.Enabled[o] = CASE szValue = "hide" -> FALSE
                                    [] szValue = "show" -> TRUE
                                    [] OTHER -> ~@]

\* MapFilterColorSetting(nMapFilter, szValue): "color" alone resets to the
\* default color
MapFilterColorSetting(m, o, szValue) ==
    IF o \in NoColorOptions
    THEN m
    ELSE [m EXCEPT !.Color[o] = IF szValue = "color" THEN DefaultColor[o]
                                ELSE ParsedColor(szValue)]

\* MapFilterRadiusSetting(pChar, nMapFilter, szValue)
MapFilterRadiusSetting(m, o, szValue) ==
    IF ~m.pLocalPlayer
    THEN m
    ELSE [m EXCEPT !.Radius[o] = GetFloatFromString(szValue),
                   !.Enabled[o] = GetFloatFromString(szValue) > 0,
                   !.Camp = IF GetFloatFromString(szValue) > 0 /\ o = "CampRadius"
                            THEN <<LocalPos[1], LocalPos[2]>> ELSE @,
                   !.Pull = IF GetFloatFromString(szValue) > 0 /\ o = "PullRadius"
                            THEN <<LocalPos[1], LocalPos[2]>> ELSE @]

\* a MapFilters that changes the setting and regenerates nothing
MapFilters_NoRegenerate(m, o, szValue) ==
    IF szValue \in ColorRests THEN MapFilterColorSetting(m, o, szValue)
    ELSE IF o \in RadiusOptions THEN MapFilterRadiusSetting(m, o, szValue)
    ELSE MapFilterSetting(m, o, szValue)

\* MapFilters(pChar, "<option> <rest>"): a color setting, a radius setting
\* or a toggle; then regenerate if the option carries MFO::Regenerate
MapFilters(m, o, szValue) ==
    With(IF szValue \in ColorRests THEN MapFilterColorSetting(m, o, szValue)
         ELSE IF o \in RadiusOptions THEN MapFilterRadiusSetting(m, o, szValue)
         ELSE MapFilterSetting(m, o, szValue), LAMBDA m1 :
        IF o \in RegenerateOptions THEN MapGenerate(MapClear(m1)) ELSE m1)

\* MapSetLocationCmd(pChar, szLine) with coordinates given: a template at
\* pos, tagged with the truncated coordinates (Y, X, Z), added to the vector
MapSetLocationCmd(m, params, labelText, pos) ==
    With(MapLocTemplate_ctor(m, params, labelText, <<pos[2], pos[1], pos[3]>>, pos, FALSE),
         LAMBDA m1 : AddMapLoc(m1, NewAddr(m.mapLocs)))

\* MapRemoveLocation("remove <index>")
MapRemoveLocation(m, index) ==
    IF GetMapLocByIndex(m, index) = NULL
    THEN m
    ELSE DeleteMapLoc(m, GetMapLocByIndex(m, index))

\* virtual GetSpawn(): the spawn variant has one
GetSpawn(m, o) == IF m.objs[o].kind = "spawn" THEN m.objs[o].handle ELSE NULL

\* a MapHide that stops at the first match
MapHide_FirstOnly(m, search) ==
    With({o \in DOMAIN m.objs : GetSpawn(m, o) # NULL
                                /\ SpawnMatchesSearch(m, search, GetSpawn(m, o))},
         LAMBDA hit : IF hit = {} THEN m ELSE RemoveMapObject(m, Min(hit)))

\* MapHide(Search): the walk of the active list; the successor is read
\* before a matching object is removed
RECURSIVE MapHideWalk(_, _, _)
MapHideWalk(m, search, pMapSpawn) ==
    IF pMapSpawn = NULL
    THEN m
    ELSE With(m.objs[pMapSpawn].m_pNext, LAMBDA pNext :
            IF GetSpawn(m, pMapSpawn) # NULL
               /\ SpawnMatchesSearch(m, search, GetSpawn(m, pMapSpawn))
            THEN MapHideWalk(RemoveMapObject(m, pMapSpawn), search, pNext)
            ELSE MapHideWalk(m, search, pNext))

MapHide(m, search) == MapHideWalk(m, search, m.gpActiveMapObjects)

\* the Count MapHide(Search) returns
RECURSIVE MapHideCount(_, _, _)
MapHideCount(m, search, pMapSpawn) ==
    IF pMapSpawn = NULL
    THEN 0
    ELSE With(m.objs[pMapSpawn].m_pNext, LAMBDA pNext :
            IF GetSpawn(m, pMapSpawn) # NULL
               /\ SpawnMatchesSearch(m, search, GetSpawn(m, pMapSpawn))
            THEN 1 + MapHideCount(RemoveMapObject(m, pMapSpawn), search, pNext)
            ELSE MapHideCount(m, search, pNext))

\* the Count MapShow(Search) returns
RECURSIVE MapShowCount(_, _, _)
MapShowCount(m, search, todo) ==
    IF todo = {}
    THEN 0
    ELSE With(Min(todo), LAMBDA sp :
            IF FindMapObject(m, sp) = NULL /\ SpawnMatchesSearch(m, search, sp)
            THEN 1 + MapShowCount(AddSpawn(m, sp, TRUE), search, todo \ {sp})
            ELSE MapShowCount(m, search, todo \ {sp}))

\* MapShow(Search): an explicit object for every listed spawn without one
RECURSIVE MapShowWalk(_, _, _)
MapShowWalk(m, search, todo) ==
    IF todo = {}
    THEN m
    ELSE LET sp == Min(todo)
         IN MapShowWalk(IF FindMapObject(m, sp) = NULL
                           /\ SpawnMatchesSearch(m, search, sp)
                        THEN AddSpawn(m, sp, TRUE)
                        ELSE m,
                        search, todo \ {sp})

MapShow(m, search) == MapShowWalk(m, search, m.pSpawnList)

\* MapShowCmd(pChar, szLine) with a spawn filter
MapShowCmd(m, search) == IF m.pLocalPlayer THEN MapShow(m, search) ELSE m

-----------------------------------------------------------------------------
(* Initial states: MapMod::Initialize under a configuration (the INI file  *)
(* and the world the client is in), then entering the game.                *)

\* a spawn struct of the world snapshot
SpawnStruct(type, pos, name) ==
    [type |-> type, pos |-> pos, name |-> name, deity |-> IF type = "PC" THEN 1 ELSE 0]

NoSnap ==
    [attach |-> <<>>, detach |-> <<>>, update |-> <<>>, arg |-> NULL, opt |-> Invalid]

\* the state after MapMod::Initialize: nothing allocated, the filter table
\* as the INI file set it
Initialize(cfg) ==
    [ spawnInfo |-> cfg.spawnInfo, pSpawnList |-> cfg.pSpawnList,
      groundList |-> cfg.groundList, pTarget |-> cfg.pTarget,
      pLocalPlayer |-> TRUE, gameState |-> GAMESTATE_POSTCHARSELECT,
      gameLabels |-> cfg.gameLabels, gameLines |-> cfg.gameLines,
      Enabled |-> cfg.Enabled, Marker |-> cfg.Marker,
      Radius |-> LoadedRadius(cfg.Enabled), Color |-> DefaultColor,
      Camp |-> <<0, 0>>, Pull |-> <<0, 0>>,
      labels |-> <<>>, gpLabelList |-> NULL, gpLabelListTail |-> NULL,
      LabelMap |-> <<>>, lines |-> <<>>, gpLineList |-> NULL,
      gpLineListTail |-> NULL, objs |-> <<>>, gpActiveMapObjects |-> NULL,
      SpawnMap |-> <<>>, GroundItemMap |-> <<>>, pLastTarget |-> NULL,
      pTargetLine |-> NULL, MapTargetNameString |-> MapNameString,
      HighlightSIDELEN |-> DefaultHighlightSIDELEN, HighlightPulse |-> FALSE,
      HighlightPulseIncreasing |-> TRUE, HighlightPulseIndex |-> 0,
      HighlightPulseDiff |-> CDiv(DefaultHighlightSIDELEN, 10),
      circles |-> [c \in CircleNames |-> MapCircle_ctor],
      mapLocs |-> <<>>, gMapLocTemplates |-> <<>>,
      pActualLabelList |-> NULL, s_labelsAttached |-> FALSE,
      s_linesAttached |-> FALSE, s_mapViewMap |-> FALSE,
      s_mapRenderEnabled |-> FALSE, s_postDrawFaultCooldown |-> 0,
      s_needsRegenerate |-> FALSE, s_hadMapObjects |-> FALSE,
      m_mapActive |-> FALSE, pc |-> "idle", phase |-> 0, frameLog |-> <<>>,
      lastOp |-> "Initialize" ]

\* the Marker column: a marker shape per object option
NoMarkers == [o \in MapFilter |-> "None"]

Names == [type \in {"PC", "NPC", "CORPSE"} |->
            CASE type = "PC" -> <<"B", "o", "b">>
              [] type = "NPC" -> <<"a", "_", "r", "a", "t">>
              [] OTHER -> <<"B", "o", "b">>]

Positions == {<<10, 20, 0>>, <<-30, 40, 5>>}
HomePos == <<10, 20, 0>>

\* the struct of a handle that is not a spawn of the zone (freed memory
\* keeps no meaning: the model gives it one fixed value)
FreeStruct == SpawnStruct("NONE", Origin, <<>>)

\* the variables hold the state m and no observation yet
Start(m) ==
    /\ spawnInfo = m.spawnInfo
    /\ pSpawnList = m.pSpawnList
    /\ groundList = m.groundList
    /\ pTarget = m.pTarget
    /\ pLocalPlayer = m.pLocalPlayer
    /\ gameState = m.gameState
    /\ gameLabels = m.gameLabels
    /\ gameLines = m.gameLines
    /\ Enabled = m.Enabled
    /\ Marker = m.Marker
    /\ FilterRadius = m.Radius
    /\ FilterColor = m.Color
    /\ Camp = m.Camp
    /\ Pull = m.Pull
    /\ labels = m.labels
    /\ gpLabelList = m.gpLabelList
    /\ gpLabelListTail = m.gpLabelListTail
    /\ LabelMap = m.LabelMap
    /\ lines = m.lines
    /\ gpLineList = m.gpLineList
    /\ gpLineListTail = m.gpLineListTail
    /\ objs = m.objs
    /\ gpActiveMapObjects = m.gpActiveMapObjects
    /\ SpawnMap = m.SpawnMap
    /\ GroundItemMap = m.GroundItemMap
    /\ pLastTarget = m.pLastTarget
    /\ pTargetLine = m.pTargetLine
    /\ MapTargetNameString = m.MapTargetNameString
    /\ HighlightSIDELEN = m.HighlightSIDELEN
    /\ HighlightPulse = m.HighlightPulse
    /\ HighlightPulseIncreasing = m.HighlightPulseIncreasing
    /\ HighlightPulseIndex = m.HighlightPulseIndex
    /\ HighlightPulseDiff = m.HighlightPulseDiff
    /\ circles = m.circles
    /\ mapLocs = m.mapLocs
    /\ gMapLocTemplates = m.gMapLocTemplates
    /\ pActualLabelList = m.pActualLabelList
    /\ s_labelsAttached = m.s_labelsAttached
    /\ s_linesAttached = m.s_linesAttached
    /\ s_mapViewMap = m.s_mapViewMap
    /\ s_mapRenderEnabled = m.s_mapRenderEnabled
    /\ s_postDrawFaultCooldown = m.s_postDrawFaultCooldown
    /\ s_needsRegenerate = m.s_needsRegenerate
    /\ s_hadMapObjects = m.s_hadMapObjects
    /\ m_mapActive = m.m_mapActive
    /\ pc = m.pc
    /\ phase = m.phase
    /\ frameLog = m.frameLog
    /\ lastOp = m.lastOp
    /\ snap = NoSnap
    /\ added = {}
    /\ events = 0

\* a world of the given spawns at their home position
WorldOf(list, types) ==
    [sp \in Spawns |->
        IF sp \in list THEN SpawnStruct(types[sp], HomePos, Names[types[sp]])
        ELSE FreeStruct]

-----------------------------------------------------------------------------
(* The frame hook, statement by statement, with faults (SpecFrame).        *)

\* PostDraw_Detour is called: it returns, or calls PostDraw_MapLogic
PostDraw_Enter ==
    /\ pc = "idle"
    /\ Commit(PostDraw_Detour(St))
    /\ snap' = NoSnap
    /\ added' = added
    /\ events' = events

\* the next statement of PostDraw_MapLogic runs to its end
PostDraw_Step ==
    /\ pc # "idle"
    /\ \E n \in {MapLogicStep(St)} :
        /\ Commit(n)
        /\ snap' = CASE pc = "MapUpdate" -> [snap EXCEPT !.update = St, !.attach = n]
                     [] pc = "MapDetach" -> [snap EXCEPT !.detach = St]
                     [] OTHER -> snap
    /\ added' = added
    /\ events' = events

\* the next statement of PostDraw_MapLogic faults: the __except block runs
PostDraw_Fault ==
    /\ pc # "idle"
    /\ \E e \in {FaultHandlerEntry(St)} :
        /\ Commit(FaultHandlerExit(e))
        /\ snap' = [snap EXCEPT !.detach = e]
    /\ added' = added
    /\ events' = events

\* between frames the host changes its own label and line lists
HostMutate(gl, gn) ==
    /\ pc = "idle"
    /\ <<gl, gn>> # <<gameLabels, gameLines>>
    /\ Commit([St EXCEPT !.gameLabels = gl, !.gameLines = gn,
                         !.lastOp = "HostMutate", !.frameLog = <<>>])
    /\ snap' = NoSnap
    /\ added' = added
    /\ events' = events

\* the chains the frame meets: labels come from the spawn, lines from the
\* cast-radius circle around the local player, so each chain is both empty
\* and non-empty in some start; HostMutate supplies the other host heads
FrameStarts ==
    { OnSetGameState(Initialize(
        [spawnInfo |-> WorldOf(list, [sp \in Spawns |-> IF sp = 1 THEN "PC" ELSE "NPC"]),
         pSpawnList |-> list, groundList |-> {}, pTarget |-> NULL,
         gameLabels |-> HostLabelNode, gameLines |-> HostLineNode,
         Enabled |-> [DefaultEnabled EXCEPT !["NormalLabels"] = normal,
                                            !["CastRadius"] = cast],
         Marker |-> NoMarkers]),
        GAMESTATE_INGAME) :
      normal \in BOOLEAN, cast \in BOOLEAN, list \in {{}, {1}} }

InitFrame == \E m \in FrameStarts : Start(m)

NextFrame ==
    \/ PostDraw_Enter
    \/ PostDraw_Step
    \/ PostDraw_Fault
    \/ \E gl \in {NULL, HostLabelNode}, gn \in {NULL, HostLineNode} : HostMutate(gl, gn)

SpecFrame == InitFrame /\ [][NextFrame]_vars

-----------------------------------------------------------------------------
(* Properties of the splice under the frame hook (SpecFrame).              *)

\* the frame log ends with the given steps
EndsWith(log, steps) ==
    /\ Len(log) >= Len(steps)
    /\ SubSeq(log, Len(log) - Len(steps) + 1, Len(log)) = steps

\* both engine tail links are null
TailLinksNull ==
    /\ gpLabelListTail # NULL => labels[gpLabelListTail].pNext = NULL
    /\ gpLineListTail # NULL => lines[gpLineListTail].pNext = NULL

\* C1: MapAttach followed by MapDetach with no host mutation in between
\* restores the host label head and the host line head to their values before
\* MapAttach, leaves both engine tail links null and both attached flags
\* false, whatever the chains and the NormalLabels setting.
C1_AttachDetachRestores ==
    pc = "log" =>
        /\ gameLabels = snap.attach.gameLabels
        /\ gameLines = snap.attach.gameLines
        /\ TailLinksNull
        /\ ~s_labelsAttached
        /\ ~s_linesAttached

C1_Witness ==
    /\ pc = "log"
    /\ gpLabelList # NULL
    /\ gpLineList # NULL
    /\ gameLabels = HostLabelNode
    /\ gameLines = HostLineNode
    /\ ~Enabled["NormalLabels"]

\* C2: when MapAttach is interrupted by a fault at any statement boundary,
\* the MapDetach of the fault handler leaves the host label head and the host
\* line head equal to their values before MapAttach and both engine tail
\* links null.
C2_FaultInAttachRestores ==
    (pc = "idle" /\ EndsWith(frameLog, <<"fault", "MapDetach">>) /\ phase = 3) =>
        /\ gameLabels = snap.attach.gameLabels
        /\ gameLines = snap.attach.gameLines
        /\ TailLinksNull

\* C3: a MapDetach that finds no attached flag set (a second consecutive
\* MapDetach, or one after a MapAttach that found both chains empty) changes
\* neither the host heads, nor the engine links, nor the saved host head.
C3_DetachWithoutAttachNoOp ==
    (/\ Len(frameLog) > 0
     /\ frameLog[Len(frameLog)] = "MapDetach"
     /\ ~snap.detach.s_labelsAttached
     /\ ~snap.detach.s_linesAttached) =>
        /\ gameLabels = snap.detach.gameLabels
        /\ gameLines = snap.detach.gameLines
        /\ labels = snap.detach.labels
        /\ lines = snap.detach.lines
        /\ pActualLabelList = snap.detach.pActualLabelList
        /\ ~s_labelsAttached
        /\ ~s_linesAttached

C3_Witness ==
    /\ EndsWith(frameLog, <<"MapDetach", "fault", "MapDetach">>)
    /\ gpLabelList # NULL
    /\ gpLineList # NULL
    /\ gameLabels = HostLabelNode
    /\ gameLines = HostLineNode

\* the steps of a frame in which the map logic ran and nothing faulted
FullFrame ==
    <<"SetMapViewMap", "MapUpdate", "MapAttach", "PostDraw_Original", "MapDetach",
      "return">>

\* C4: a frame that runs the map logic runs MapUpdate, MapAttach, the host
\* draw and MapDetach in this order, each once; after a fault in the host
\* draw or later MapDetach still runs before the hook returns; and whenever
\* the hook has returned both attached flags are false and neither host head
\* is an engine node.
C4_FrameOrderAndExit ==
    /\ (Len(frameLog) > 0 /\ frameLog[Len(frameLog)] = "return") => frameLog = FullFrame
    /\ (pc = "idle" /\ "fault" \in Range(frameLog)) =>
            frameLog[Len(frameLog)] = "MapDetach"
    /\ pc = "idle" =>
        /\ ~s_labelsAttached
        /\ ~s_linesAttached
        /\ gameLabels \notin DOMAIN labels
        /\ gameLines \notin DOMAIN lines

C4_Witness ==
    /\ pc = "idle"
    /\ EndsWith(frameLog, <<"MapAttach", "fault", "MapDetach">>)
    /\ phase = 4
    /\ gpLabelList # NULL
    /\ gpLineList # NULL

-----------------------------------------------------------------------------
(* The object index under its own calls (SpecIndex): AddSpawn,             *)
(* RemoveSpawn, AddGroundItem and RemoveGroundItem in any order, an        *)
(* AddSpawn for a handle that has an object included.                      *)

\* AddSpawn(pNewSpawn, ExplicitAllow) where the object is made: the call is
\* explicit or the visibility predicate admits the spawn
Api_AddSpawn(sp, explicit) ==
    /\ Cardinality(DOMAIN objs) < MaxObjects
    /\ IF explicit THEN TRUE ELSE CanDisplaySpawnObject(St, GetSpawnType(St, sp), sp)
    /\ Commit([AddSpawn(St, sp, explicit) EXCEPT !.lastOp = "AddSpawn"])
    /\ snap' = [NoSnap EXCEPT !.arg = sp]
    /\ added' = added \cup {sp}
    /\ events' = events

\* RemoveSpawn(pSpawn)
Api_RemoveSpawn(sp) ==
    /\ Commit([RemoveSpawn(St, sp) EXCEPT !.lastOp = "RemoveSpawn"])
    /\ snap' = [NoSnap EXCEPT !.arg = sp]
    /\ added' = added \ {sp}
    /\ events' = events

\* AddGroundItem(pGroundItem)
Api_AddGroundItem(gi) ==
    /\ Cardinality(DOMAIN objs) < MaxObjects
    /\ Commit([AddGroundItem(St, gi) EXCEPT !.lastOp = "AddGroundItem"])
    /\ snap' = [NoSnap EXCEPT !.arg = gi]
    /\ added' = added
    /\ events' = events

\* RemoveGroundItem(pGroundItem)
Api_RemoveGroundItem(gi) ==
    /\ Commit([RemoveGroundItem(St, gi) EXCEPT !.lastOp = "RemoveGroundItem"])
    /\ snap' = [NoSnap EXCEPT !.arg = gi]
    /\ added' = added
    /\ events' = events

\* every spawn and ground item of the zone exists; no object is made yet
IndexStarts ==
    { Initialize(
        [spawnInfo |-> WorldOf(Spawns, [sp \in Spawns |-> IF sp = 1 THEN "PC" ELSE "NPC"]),
         pSpawnList |-> Spawns, groundList |-> GroundItems, pTarget |-> NULL,
         gameLabels |-> NULL, gameLines |-> NULL,
         Enabled |-> [DefaultEnabled EXCEPT !["NPC"] = npc, !["Ground"] = TRUE],
         Marker |-> NoMarkers]) : npc \in BOOLEAN }

InitIndex == \E m \in IndexStarts : Start(m)

NextIndex ==
    \/ \E sp \in Spawns, explicit \in BOOLEAN : Api_AddSpawn(sp, explicit)
    \/ \E sp \in Spawns : Api_RemoveSpawn(sp)
    \/ \E gi \in GroundItems : Api_AddGroundItem(gi)
    \/ \E gi \in GroundItems : Api_RemoveGroundItem(gi)

SpecIndex == InitIndex /\ [][NextIndex]_vars

\* the live objects that wrap a spawn handle / a ground-item handle
SpawnObjects(h) == {o \in DOMAIN objs : objs[o].kind = "spawn" /\ objs[o].handle = h}
GroundObjects(h) == {o \in DOMAIN objs : objs[o].kind = "ground" /\ objs[o].handle = h}

\* C5: after every AddSpawn (explicit or admitted by the visibility
\* predicate) and every RemoveSpawn, the handles for which FindMapObject
\* returns an object are exactly the handles added and not removed since, and
\* distinct handles are mapped to distinct objects.
C5_IndexTracksAddRemove ==
    /\ {sp \in Spawns : FindMapObject(St, sp) # NULL} = added
    /\ \A a, b \in DOMAIN SpawnMap : a # b => SpawnMap[a] # SpawnMap[b]

C5_Witness ==
    /\ lastOp = "RemoveSpawn"
    /\ snap.arg = 2
    /\ added = {1}
    /\ FindMapObject(St, 1) # NULL
    /\ FindMapObject(St, 2) = NULL

\* C6: at most one live object wraps a given spawn handle (likewise a given
\* ground-item handle), the map entry of the handle designates that object,
\* and after RemoveSpawn(h) no live object wraps h; also when AddSpawn is
\* called for a handle that already has an object.
C6_OneObjectPerHandle ==
    /\ \A h \in Spawns :
        /\ Cardinality(SpawnObjects(h)) <= 1
        /\ \A o \in SpawnObjects(h) : FindMapObject(St, h) = o
    /\ \A g \in GroundItems :
        /\ Cardinality(GroundObjects(g)) <= 1
        /\ \A o \in GroundObjects(g) : FindGroundObject(St, g) = o
    /\ lastOp = "RemoveSpawn" => SpawnObjects(snap.arg) = {}

-----------------------------------------------------------------------------
(* The map while the game runs (SpecUpdate): spawns come, move, die and    *)
(* go, the player targets, the user sets filters and shows spawns, and     *)
(* frames are drawn.  No statement faults here.                            *)

TypeOfHandle(sp) == IF sp = 1 THEN "PC" ELSE "NPC"
\* the handles of player characters: the spawns this specification moves and
\* creates before their name is known
Players == {sp \in Spawns : TypeOfHandle(sp) = "PC"}
NamesAtCreation(sp) ==
    IF sp \in Players THEN {<<>>, Names["PC"]} ELSE {Names[TypeOfHandle(sp)]}

\* the statements of PostDraw_MapLogic up to the return
RECURSIVE RunToIdle(_)
RunToIdle(m) == IF m.pc = "idle" THEN m ELSE RunToIdle(MapLogicStep(m))

\* PostDraw_Detour is called: what it does before MapUpdate (cooldown,
\* depletion, regenerate, SetMapViewMap)
Frame_Enter ==
    /\ pc = "idle"
    /\ \E e \in {PostDraw_Detour(St)} :
            Commit(IF e.pc = "idle" THEN e ELSE MapLogicStep(e))
    /\ snap' = snap
    /\ added' = added
    /\ events' = events

\* the rest of the call, from MapUpdate to the return; the observation keeps
\* the state MapUpdate started from
Frame_Run ==
    /\ pc = "MapUpdate"
    /\ Commit(RunToIdle(St))
    /\ snap' = [snap EXCEPT !.update = St]
    /\ added' = added
    /\ events' = events

\* the game creates spawn sp (its name may not be populated yet) and the
\* CreatePlayer hook calls MapMod::OnAddSpawn
Game_AddSpawn(sp, name) ==
    /\ pc = "idle"
    /\ events < MaxEvents
    /\ sp \notin pSpawnList
    /\ Commit([OnAddSpawn([St EXCEPT !.pSpawnList = @ \cup {sp},
                                     !.spawnInfo[sp] =
                                        SpawnStruct(TypeOfHandle(sp), HomePos, name)], sp)
                 EXCEPT !.lastOp = "OnAddSpawn", !.frameLog = <<>>])
    /\ snap' = [NoSnap EXCEPT !.arg = sp]
    /\ added' = added
    /\ events' = events + 1

\* the PrepForDestroyPlayer hook calls MapMod::OnRemoveSpawn, then the game
\* frees the spawn (and drops it as the target)
Game_RemoveSpawn(sp) ==
    /\ pc = "idle"
    /\ events < MaxEvents
    /\ sp \in pSpawnList
    /\ Commit([OnRemoveSpawn(St, sp) EXCEPT
                  !.pSpawnList = @ \ {sp}, !.spawnInfo[sp] = FreeStruct,
                  !.pTarget = IF @ = sp THEN NULL ELSE @,
                  !.lastOp = "Other", !.frameLog = <<>>])
    /\ snap' = NoSnap
    /\ added' = added
    /\ events' = events + 1

\* the game moves a spawn
Game_MoveSpawn(sp, pos) ==
    /\ pc = "idle"
    /\ events < MaxEvents
    /\ sp \in pSpawnList
    /\ spawnInfo[sp].pos # pos
    /\ Commit([St EXCEPT !.spawnInfo[sp].pos = pos, !.lastOp = "Other",
                         !.frameLog = <<>>])
    /\ snap' = NoSnap
    /\ added' = added
    /\ events' = events + 1

\* an NPC dies: its struct becomes a corpse
Game_Die(sp) ==
    /\ pc = "idle"
    /\ events < MaxEvents
    /\ sp \in pSpawnList
    /\ spawnInfo[sp].type = "NPC"
    /\ Commit([St EXCEPT !.spawnInfo[sp].type = "CORPSE", !.lastOp = "Other",
                         !.frameLog = <<>>])
    /\ snap' = NoSnap
    /\ added' = added
    /\ events' = events + 1

\* the game populates the name of a spawn it created without one
Game_NameSpawn(sp) ==
    /\ pc = "idle"
    /\ events < MaxEvents
    /\ sp \in pSpawnList
    /\ spawnInfo[sp].name = <<>>
    /\ Commit([St EXCEPT !.spawnInfo[sp].name = Names[TypeOfHandle(sp)],
                         !.lastOp = "Other", !.frameLog = <<>>])
    /\ snap' = NoSnap
    /\ added' = added
    /\ events' = events + 1

\* the player targets a spawn, or nothing
Game_SetTarget(t) ==
    /\ pc = "idle"
    /\ events < MaxEvents
    /\ t \in {NULL} \cup pSpawnList
    /\ t # pTarget
    /\ Commit([St EXCEPT !.pTarget = t, !.lastOp = "Other", !.frameLog = <<>>])
    /\ snap' = NoSnap
    /\ added' = added
    /\ events' = events + 1

\* /mapfilter <option> hide|show; the observation tells a filter that went
\* off without a regenerate from everything else
Cmd_MapFilters(o, szValue) ==
    /\ pc = "idle"
    /\ events < MaxEvents
    /\ pLocalPlayer
    /\ Enabled[o] # (szValue = "show")
    /\ Commit([MapFilters(St, o, szValue) EXCEPT
                  !.lastOp = IF szValue = "hide" /\ o \notin RegenerateOptions
                             THEN "FilterOff" ELSE "Other",
                  !.frameLog = <<>>])
    /\ snap' = [NoSnap EXCEPT !.opt = o]
    /\ added' = added
    /\ events' = events + 1

\* /mapshow with a search every spawn matches
Cmd_MapShow ==
    /\ pc = "idle"
    /\ events < MaxEvents
    /\ Commit([MapShowCmd(St, ClearedSearch) EXCEPT !.lastOp = "Other",
                                                    !.frameLog = <<>>])
    /\ snap' = NoSnap
    /\ added' = added
    /\ events' = events + 1

\* in game with no spawn yet, the filters as Initialize leaves them
InitUpdate ==
    Start(OnSetGameState(Initialize(
        [spawnInfo |-> WorldOf({}, [sp \in Spawns |-> TypeOfHandle(sp)]),
         pSpawnList |-> {}, groundList |-> {}, pTarget |-> NULL,
         gameLabels |-> HostLabelNode, gameLines |-> HostLineNode,
         Enabled |-> DefaultEnabled, Marker |-> NoMarkers]), GAMESTATE_INGAME))

NextUpdate ==
    \/ Frame_Enter
    \/ Frame_Run
    \/ \E sp \in Spawns : \E name \in NamesAtCreation(sp) : Game_AddSpawn(sp, name)
    \/ \E sp \in Spawns : Game_RemoveSpawn(sp)
    \/ \E sp \in Players, pos \in Positions : Game_MoveSpawn(sp, pos)
    \/ \E sp \in Spawns : Game_Die(sp)
    \/ \E sp \in Players : Game_NameSpawn(sp)
    \/ \E t \in {NULL} \cup Spawns : Game_SetTarget(t)
    \/ \E o \in {"PC", "NPC", "Custom"}, szValue \in {"hide", "show"} :
            Cmd_MapFilters(o, szValue)
    \/ Cmd_MapShow

SpecUpdate == InitUpdate /\ [][NextUpdate]_vars

-----------------------------------------------------------------------------
(* Properties of MapUpdate while the game runs (SpecUpdate).               *)

\* the objects reached from gpActiveMapObjects by m_pNext
RECURSIVE ActiveObjects(_, _, _)
ActiveObjects(heap, head, fuel) ==
    IF head = NULL \/ head \notin DOMAIN heap \/ fuel = 0
    THEN {}
    ELSE {head} \cup ActiveObjects(heap, heap[head].m_pNext, fuel - 1)

\* object o of the state `pre` is still alive and in the active list
Survives(pre, o) ==
    /\ o \in DOMAIN objs
    /\ objs[o].kind = pre.objs[o].kind
    /\ objs[o].handle = pre.objs[o].handle
    /\ o \in ActiveObjects(objs, gpActiveMapObjects, Cardinality(DOMAIN objs))

\* what CanDisplayObject answers when the walk of MapUpdate asks it: the walk
\* has then refreshed the object's cached type from the spawn
CanDisplayAtWalk(pre, o) ==
    IF pre.objs[o].kind = "spawn"
    THEN CanDisplayObject([pre EXCEPT !.objs[o].m_type =
                                GetSpawnType(pre, pre.objs[o].handle)], o)
    ELSE CanDisplayObject(pre, o)

\* a frame has run MapUpdate and returned
UpdateRan == pc = "idle" /\ frameLog = FullFrame

NonTargetPC(S) == S \in pSpawnList /\ spawnInfo[S].type = "PC" /\ S # pTarget

\* the label of object o is at the render point of its spawn's position and
\* shows the name template formatted for the spawn
LabelSynced(o) ==
    /\ objs[o].m_label \in DOMAIN labels
    /\ labels[objs[o].m_label].Location = RenderPoint(spawnInfo[objs[o].handle].pos)
    /\ labels[objs[o].m_label].Label = FormatString(St, o, MapNameString)

\* OnAddSpawn of a non-target PC with the PC filter enabled leaves exactly one
\* object, not explicit, with its label in place
PcCreated(S) ==
    (/\ pc = "idle" /\ lastOp = "OnAddSpawn" /\ frameLog = <<>>
     /\ snap.arg = S /\ NonTargetPC(S) /\ IsOptionEnabled(St, "PC")) =>
        /\ Cardinality(SpawnObjects(S)) = 1
        /\ \A o \in SpawnObjects(S) : ~objs[o].m_explicit /\ LabelSynced(o)
        /\ FindMapObject(St, S) \in SpawnObjects(S)

\* after every MapUpdate the label of a non-explicit object of a non-target PC
\* is in place
PcUpdated(S) ==
    (UpdateRan /\ NonTargetPC(S)) =>
        \A o \in SpawnObjects(S) : ~objs[o].m_explicit => LabelSynced(o)

\* one MapUpdate after the PC filter went off, no object wraps S
PcPruned(S, anyCustom) ==
    (/\ lastOp = "FilterOff" /\ UpdateRan /\ snap.opt = "PC" /\ NonTargetPC(S)
     /\ anyCustom \/ ~IsOptionEnabled(St, "Custom")
     /\ \A o \in DOMAIN snap.update.objs :
            (snap.update.objs[o].kind = "spawn" /\ snap.update.objs[o].handle = S)
                => ~snap.update.objs[o].m_explicit) =>
        /\ SpawnObjects(S) = {}
        /\ FindMapObject(St, S) = NULL

\* C8 as amended: a non-target PC spawn S added non-explicitly while the PC
\* filter is enabled yields exactly one object; right after creation and after
\* every Update its label is at (-x, -y, z) of S's current position and shows
\* the name template formatted for S; and when the PC filter is turned off
\* while the Custom filter is disabled, one MapUpdate pass destroys the object
\* and FindMapObject(S) returns none.
C8_PcSpawnLifecycle ==
    \A S \in Spawns : PcCreated(S) /\ PcUpdated(S) /\ PcPruned(S, FALSE)

\* C8 as stated: the same, whatever the Custom filter is.
C8_AsStated ==
    \A S \in Spawns : PcCreated(S) /\ PcUpdated(S) /\ PcPruned(S, TRUE)

\* S was created without a name, named and moved, and then pruned
C8_Witness ==
    /\ lastOp = "FilterOff" /\ UpdateRan /\ snap.opt = "PC" /\ NonTargetPC(1)
    /\ ~IsOptionEnabled(St, "Custom")
    /\ spawnInfo[1].pos # HomePos
    /\ \E o \in DOMAIN snap.update.objs :
        /\ snap.update.objs[o].kind = "spawn" /\ snap.update.objs[o].handle = 1
        /\ ~snap.update.objs[o].m_explicit
    /\ SpawnObjects(1) = {}

-----------------------------------------------------------------------------
(* Markers (SpecMarker): the INI file gave the PC and NPC filters a marker *)
(* shape and enabled the Marker option; spawns come, move and go, the user *)
(* shows spawns and sets the Marker, All and PC filters, frames are drawn. *)

MarkerStarts ==
    { OnSetGameState(Initialize(
        [spawnInfo |-> WorldOf({}, [sp \in Spawns |-> TypeOfHandle(sp)]),
         pSpawnList |-> {}, groundList |-> {}, pTarget |-> NULL,
         gameLabels |-> HostLabelNode, gameLines |-> HostLineNode,
         Enabled |-> [DefaultEnabled EXCEPT !["Marker"] = TRUE],
         Marker |-> [NoMarkers EXCEPT !["PC"] = pcShape, !["NPC"] = npcShape]]),
        GAMESTATE_INGAME) :
      pcShape \in {"Triangle", "Ring"}, npcShape \in {"Square", "Diamond", "None"} }

InitMarker == \E m \in MarkerStarts : Start(m)

NextMarker ==
    \/ Frame_Enter
    \/ Frame_Run
    \/ \E sp \in Spawns : Game_AddSpawn(sp, Names[TypeOfHandle(sp)])
    \/ \E sp \in Spawns : Game_RemoveSpawn(sp)
    \/ \E sp \in Players, pos \in Positions : Game_MoveSpawn(sp, pos)
    \/ \E o \in {"Marker", "All", "PC"}, szValue \in {"hide", "show"} :
            Cmd_MapFilters(o, szValue)
    \/ Cmd_MapShow

SpecMarker == InitMarker /\ [][NextMarker]_vars

\* the lines of the engine's line chain
LineChain == Range(Chain(lines, gpLineList, Cardinality(DOMAIN lines)))

\* the objects that were alive when MapUpdate started and still are
Kept == {o \in DOMAIN objs \cap DOMAIN snap.update.objs :
            objs[o].handle = snap.update.objs[o].handle}

\* C9: every live object has as many marker lines as its current marker type
\* has sides (Ring 8, Square 4, Diamond 4, Triangle 3, None 0), each of them a
\* line of the engine's line chain; and after RemoveMarker (the Update of a
\* pass that finds the Marker option off) the object has no marker line, its
\* type is None and the lines it had are no longer in the chain.
C9_MarkerLineCount ==
    /\ \A o \in DOMAIN objs :
        /\ Len(objs[o].m_markerLines) = GetNumMarkerSides(objs[o].m_marker)
        /\ Range(objs[o].m_markerLines) \subseteq LineChain
    /\ (UpdateRan /\ ~IsOptionEnabled(St, "Marker")) =>
        \A o \in Kept :
            /\ objs[o].m_markerLines = <<>>
            /\ objs[o].m_marker = "None"
            /\ Range(snap.update.objs[o].m_markerLines) \cap LineChain = {}

\* a ring and a square are drawn, and a pass has removed a ring
C9_Witness ==
    /\ UpdateRan /\ ~IsOptionEnabled(St, "Marker")
    /\ \E o \in Kept :
        /\ snap.update.objs[o].m_marker = "Ring"
        /\ Len(snap.update.objs[o].m_markerLines) = MarkerSides_Ring
        /\ objs[o].m_marker = "None"

-----------------------------------------------------------------------------
(* Circles (SpecCircle): UpdateCircle and Clear called on the MapCircle    *)
(* statics in any order.                                                   *)

\* the circles the calls are made on, and the arguments they are made with:
\* a color and a geometry (Radius, X, Y, Z)
CallCircles == {"CastCircle", "TargetCircle", "SpellCircle"}
CallArgs == {<<<<128, 128, 0>>, <<50, 1, 2, 3>>>>, <<<<255, 128, 0>>, <<10, 10, 20, 0>>>>}

Api_UpdateCircle(c, Color, geo) ==
    /\ Commit([UpdateCircle(St, c, Color, geo[1], geo[2], geo[3], geo[4])
                 EXCEPT !.lastOp = "UpdateCircle"])
    /\ snap' = [NoSnap EXCEPT !.update = St, !.opt = c]
    /\ added' = added
    /\ events' = events

Api_Clear(c) ==
    /\ Commit([Clear(St, c) EXCEPT !.lastOp = "Clear"])
    /\ snap' = [NoSnap EXCEPT !.update = St, !.opt = c]
    /\ added' = added
    /\ events' = events

NextCircle ==
    \/ \E c \in CallCircles, a \in CallArgs : Api_UpdateCircle(c, a[1], a[2])
    \/ \E c \in CallCircles : Api_Clear(c)

SpecCircle == InitUpdate /\ [][NextCircle]_vars

\* C10: after any sequence of UpdateCircle and Clear calls a circle has all
\* of its 36 segments or none; segment i spans the angles 10*i to 10*(i+1)
\* degrees, and segment 35 ends where segment 0 starts (modulo 360); Clear on
\* a circle that was never updated changes nothing.
C10_CircleAllOrNone ==
    /\ Cardinality(Segments) = 36
    /\ \A c \in CallCircles :
        LET comp == circles[c].m_components
        IN /\ \/ \A i \in Segments : comp[i] # NULL /\ comp[i] \in DOMAIN lines
              \/ \A i \in Segments : comp[i] = NULL
           /\ \A i \in Segments : comp[i] # NULL =>
                /\ lines[comp[i]].Start[2] = 10 * i
                /\ lines[comp[i]].End[2] = 10 * (i + 1)
           /\ comp[35] # NULL =>
                /\ lines[comp[35]].End[2] % 360 = lines[comp[0]].Start[2] % 360
                /\ SubSeq(lines[comp[35]].End, 3, 6) = SubSeq(lines[comp[0]].Start, 3, 6)
    /\ (lastOp = "Clear" /\ ~snap.update.circles[snap.opt].m_initialized) =>
            St = [snap.update EXCEPT !.lastOp = "Clear"]

\* one circle is drawn and Clear was called on a circle never updated
C10_Witness ==
    /\ lastOp = "Clear"
    /\ ~snap.update.circles[snap.opt].m_initialized
    /\ \E c \in CallCircles :
        /\ circles[c].m_components[35] # NULL
        /\ lines[circles[c].m_components[35]].End[2] = 360

-----------------------------------------------------------------------------
(* SpecFilter: the filter table under /mapfilter.  The INI file sets the   *)
(* Enabled bits of a sample of options (a chain All - Target - TargetLine, *)
(* two radius options below Target, one object option); the user then     *)
(* issues toggle, radius and color commands.                               *)

FilterSample == {"All", "PC", "Target", "TargetLine", "TargetRadius", "TargetMelee"}
ColorSample == {"TargetRadius"}

FilterStarts ==
    { OnSetGameState(Initialize(
        [spawnInfo |-> WorldOf(Spawns, [sp \in Spawns |-> TypeOfHandle(sp)]),
         pSpawnList |-> Spawns, groundList |-> {}, pTarget |-> NULL,
         gameLabels |-> HostLabelNode, gameLines |-> HostLineNode,
         Enabled |-> [o \in MapFilter |-> o \in on],
         Marker |-> NoMarkers]), GAMESTATE_INGAME) : on \in SUBSET FilterSample }

InitFilter == \E m \in FilterStarts : Start(m)

\* /mapfilter <option> <rest>; the state before the command is kept
Cmd_MapFilterLine(o, szRest, kind) ==
    /\ pc = "idle"
    /\ Commit([MapFilters(St, o, szRest) EXCEPT !.lastOp = kind, !.frameLog = <<>>])
    /\ snap' = [NoSnap EXCEPT !.update = St, !.opt = o]
    /\ added' = added
    /\ events' = events

NextFilter ==
    \/ \E o \in FilterSample \ RadiusOptions, szRest \in {"hide", "show", "toggle"} :
            Cmd_MapFilterLine(o, szRest, "Toggle")
    \/ \E o \in FilterSample \cap RadiusOptions, szRest \in RadiusRests :
            Cmd_MapFilterLine(o, szRest, "Radius")
    \/ \E o \in ColorSample, szRest \in ColorRests :
            Cmd_MapFilterLine(o, szRest, "Color")

SpecFilter == InitFilter /\ [][NextFilter]_vars

\* C11: whatever the Enabled bits are, an option whose required option is
\* not enabled is not enabled itself; IsOptionEnabled(c) is c's own bit and
\* RequirementsMet(c); the Invalid option counts as enabled
C11_RequirementChain ==
    /\ IsOptionEnabled(St, Invalid)
    /\ \A c \in MapFilter :
        /\ IsOptionEnabled(St, c) = (Enabled[c] /\ RequirementsMet(St, c))
        /\ (RequiresOption[c] # Invalid /\ ~IsOptionEnabled(St, RequiresOption[c]))
                => ~IsOptionEnabled(St, c)

\* All was just switched off under an enabled Target and TargetLine
C11_Witness ==
    /\ lastOp = "Toggle" /\ snap.opt = "All"
    /\ Enabled["TargetLine"] /\ Enabled["Target"] /\ ~Enabled["All"]
    /\ ~IsOptionEnabled(St, "TargetLine")

\* the filter table and the index are what they were before the command
FilterTableUnchanged(pre) ==
    /\ Enabled = pre.Enabled
    /\ FilterRadius = pre.Radius
    /\ FilterColor = pre.Color
    /\ SpawnMap = pre.SpawnMap
    /\ GroundItemMap = pre.GroundItemMap
    /\ objs = pre.objs

\* C19: a /mapfilter command (toggle, radius or color setting) addressed to
\* an option whose required option is not enabled changes no Enabled bit,
\* no Radius, no Color and not the index
C19_UnmetRequirementNoOp ==
    (lastOp \in {"Toggle", "Radius", "Color"} /\ ~RequirementsMet(snap.update, snap.opt))
        => FilterTableUnchanged(snap.update)

-----------------------------------------------------------------------------
(* Location markers (SpecLoc): the user sets and removes map locations     *)
(* while the game runs, toggles filters, and frames run MapUpdate.         *)

\* number of location templates the user keeps at a time
MaxLocs == 1

\* the "/maploc" parameters the user gives: an X of width 2 and size 10
\* with a circle of radius r (none if r = 0)
LocParams(r) ==
    [lineSize |-> 10, width |-> 2, color |-> <<255, 0, 0>>,
     circleRadius |-> r, circleColor |-> <<0, 0, 255>>]

\* the locations the user sets: an unlabelled X, a labelled X in a circle
LocCalls == {<<LocParams(0), <<>>>>, <<LocParams(25), <<"i", "n", "n">>>>}

InitLoc ==
    Start(OnSetGameState(Initialize(
        [spawnInfo |-> WorldOf(Spawns, [sp \in Spawns |-> TypeOfHandle(sp)]),
         pSpawnList |-> Spawns, groundList |-> {}, pTarget |-> NULL,
         gameLabels |-> HostLabelNode, gameLines |-> HostLineNode,
         Enabled |-> DefaultEnabled, Marker |-> NoMarkers]), GAMESTATE_INGAME))

\* /maploc <params> <y> <x> <z>; the state before the command is kept
Cmd_MapSetLocation(params, labelText, pos) ==
    /\ pc = "idle"
    /\ Len(gMapLocTemplates) < MaxLocs
    /\ Commit([MapSetLocationCmd(St, params, labelText, pos) EXCEPT
                  !.lastOp = "MapSetLocation", !.frameLog = <<>>])
    /\ snap' = [NoSnap EXCEPT !.attach = St, !.arg = NewAddr(mapLocs)]
    /\ added' = added
    /\ events' = events

\* the template t was set by the last command and no frame has run since
JustSet(t) == lastOp = "MapSetLocation" /\ frameLog = <<>> /\ snap.arg = t

\* /maploc remove <index>; the state before the command is kept, and the
\* state before the creation too when the location was only just set
Cmd_MapRemoveLocation(index) ==
    /\ pc = "idle"
    /\ index \in 1..Len(gMapLocTemplates)
    /\ Commit([MapRemoveLocation(St, index) EXCEPT
                  !.lastOp = IF JustSet(gMapLocTemplates[index])
                             THEN "MapRemoveLocation (new)" ELSE "MapRemoveLocation",
                  !.frameLog = <<>>])
    /\ snap' = [attach |-> IF JustSet(gMapLocTemplates[index])
                           THEN snap.attach ELSE <<>>,
                detach |-> St, update |-> <<>>,
                arg |-> gMapLocTemplates[index], opt |-> Invalid]
    /\ added' = added
    /\ events' = events

NextLoc ==
    \/ Frame_Enter
    \/ Frame_Run
    \/ \E a \in LocCalls : Cmd_MapSetLocation(a[1], a[2], HomePos)
    \/ \E index \in 1..MaxLocs : Cmd_MapRemoveLocation(index)
    \/ \E o \in {"All", "Target"}, szRest \in {"hide", "show"} :
            Cmd_MapFilterLine(o, szRest, "Toggle")

SpecLoc == InitLoc /\ [][NextLoc]_vars

\* the lines of a sequence or array of line pointers that are set
LinesOf(ptrs) == {ptrs[i] : i \in DOMAIN ptrs} \ {NULL}

\* the lines and the label the location object o owns in state m
LocLines(m, o) == LinesOf(m.objs[o].m_lines) \cup LinesOf(m.circles[LocCircle(o)].m_components)

\* the engine chains as the sets of their nodes
LabelChainOf(m) == Range(Chain(m.labels, m.gpLabelList, Cardinality(DOMAIN m.labels) + 1))
LineChainOf(m) == Range(Chain(m.lines, m.gpLineList, Cardinality(DOMAIN m.lines) + 1))

\* what the creation of the template t made of the state pre
LocCreated(pre, t) ==
    LET o == mapLocs[t].m_mapObject
    IN /\ DOMAIN objs = DOMAIN pre.objs \cup {o} /\ o \notin DOMAIN pre.objs
       /\ objs[o].kind = "loc" /\ objs[o].handle = t
       /\ objs[o].m_label \in LabelChainOf(St)
       /\ DOMAIN labels = DOMAIN pre.labels \cup {objs[o].m_label}
       /\ objs[o].m_label \notin DOMAIN pre.labels
       /\ Len(objs[o].m_lines) = 2 + 4 * (mapLocs[t].m_mapLocParams.width - 1)
       /\ Cardinality(LinesOf(objs[o].m_lines)) = Len(objs[o].m_lines)
       /\ Cardinality(LinesOf(circles[LocCircle(o)].m_components)) = 36
       /\ LinesOf(objs[o].m_lines) \cap LinesOf(circles[LocCircle(o)].m_components) = {}
       /\ LocLines(St, o) \subseteq LineChainOf(St)
       /\ DOMAIN lines = DOMAIN pre.lines \cup LocLines(St, o)
       /\ LocLines(St, o) \cap DOMAIN pre.lines = {}

\* what the deletion of the template t made of the state pre
LocDeleted(pre, t) ==
    LET o == pre.mapLocs[t].m_mapObject
    IN /\ t \notin DOMAIN mapLocs
       /\ o # NULL =>
            /\ o \notin DOMAIN objs
            /\ pre.objs[o].m_label \notin DOMAIN labels
            /\ LocLines(pre, o) \cap DOMAIN lines = {}
            /\ LocLines(pre, o) \cap LineChainOf(St) = {}
            /\ DOMAIN lines = DOMAIN pre.lines \ LocLines(pre, o)
       /\ LineChainOf(St) = DOMAIN lines
       /\ LabelChainOf(St) = DOMAIN labels

\* C12: setting a location with a circle radius above 0 adds exactly one
\* location object with one label, the lines of its X and exactly 36 circle
\* lines, all of them in the engine chains; removing the location destroys
\* the object and frees the label and every one of those lines, and when
\* the location was only just set the chains hold what they held before
C12_LocCreateDelete ==
    /\ (JustSet(snap.arg) /\ mapLocs[snap.arg].m_mapLocParams.circleRadius > 0)
            => LocCreated(snap.attach, snap.arg)
    /\ (lastOp \in {"MapRemoveLocation", "MapRemoveLocation (new)"} /\ frameLog = <<>>)
            => LocDeleted(snap.detach, snap.arg)
    /\ (lastOp = "MapRemoveLocation (new)" /\ frameLog = <<>>)
            => /\ labels = snap.attach.labels /\ gpLabelList = snap.attach.gpLabelList
               /\ lines = snap.attach.lines /\ gpLineList = snap.attach.gpLineList
               /\ gpLabelListTail = snap.attach.gpLabelListTail
               /\ gpLineListTail = snap.attach.gpLineListTail
               /\ objs = snap.attach.objs

\* a location with a circle was set and removed again at once
C12_Witness ==
    /\ lastOp = "MapRemoveLocation (new)" /\ frameLog = <<>>
    /\ snap.detach.mapLocs[snap.arg].m_mapLocParams.circleRadius > 0
    /\ Cardinality(LocLines(snap.detach, snap.detach.mapLocs[snap.arg].m_mapObject)) = 42
    /\ Cardinality(DOMAIN snap.attach.lines) = Cardinality(DOMAIN lines)

\* C17: whatever filter commands were given (All switched off, commands
\* that clear and regenerate) and whatever frames ran MapUpdate, every
\* location template of the vector has its object in the active list
C17_LocsSurviveFilters ==
    \A i \in DOMAIN gMapLocTemplates :
        /\ mapLocs[gMapLocTemplates[i]].m_mapObject # NULL
        /\ mapLocs[gMapLocTemplates[i]].m_mapObject
                \in ActiveObjects(objs, gpActiveMapObjects, Cardinality(DOMAIN objs))

-----------------------------------------------------------------------------
(* MapClear under its callers (SpecClear): the game enters and leaves the  *)
(* INGAME state (OnSetGameState clears the map both ways), the player      *)
(* targets, the user sets a location, and frames run MapUpdate.  The PC    *)
(* filter has a marker and the cast radius a circle, so every kind of      *)
(* label and line the engine owns is there to clear.                       *)

InitClear ==
    Start(Initialize(
        [spawnInfo |-> WorldOf(Spawns, [sp \in Spawns |-> TypeOfHandle(sp)]),
         pSpawnList |-> Spawns, groundList |-> GroundItems, pTarget |-> NULL,
         gameLabels |-> HostLabelNode, gameLines |-> HostLineNode,
         Enabled |-> [DefaultEnabled EXCEPT !["CastRadius"] = TRUE, !["Marker"] = TRUE,
                                            !["Ground"] = TRUE],
         Marker |-> [NoMarkers EXCEPT !["PC"] = "Triangle"]]))

\* the game sets its state and tells the module; the state before is kept
Game_SetGameState(gs) ==
    /\ pc = "idle"
    /\ events < MaxEvents
    /\ Commit([OnSetGameState(St, gs) EXCEPT !.lastOp = "OnSetGameState", !.frameLog = <<>>])
    /\ snap' = [NoSnap EXCEPT !.update = St]
    /\ added' = added
    /\ events' = events + 1

NextClear ==
    \/ Frame_Enter
    \/ Frame_Run
    \/ \E t \in {NULL} \cup Spawns : Game_SetTarget(t)
    \/ Cmd_MapSetLocation(LocParams(25), <<>>, HomePos)
    \/ \E gs \in {GAMESTATE_POSTCHARSELECT, GAMESTATE_INGAME} : Game_SetGameState(gs)

SpecClear == InitClear /\ [][NextClear]_vars

\* nothing is left of the map: no object, no label, no line, no target
MapIsEmpty ==
    /\ SpawnMap = <<>> /\ GroundItemMap = <<>>
    /\ gpActiveMapObjects = NULL /\ objs = <<>>
    /\ gpLabelList = NULL /\ gpLabelListTail = NULL /\ labels = <<>>
    /\ gpLineList = NULL /\ gpLineListTail = NULL /\ lines = <<>>
    /\ LabelMap = <<>>
    /\ pLastTarget = NULL /\ pTargetLine = NULL
    /\ \A c \in CircleNames : \A i \in Segments : circles[c].m_components[i] = NULL

\* C13: MapClear ends in every state it is called in, also when nothing was
\* ever generated; after it both maps, the active list, the label and line
\* chains and the label map are empty, the last target and the target line
\* are null and the six circles have no segment; a second MapClear right
\* after it changes nothing
C13_MapClearEmpties ==
    (lastOp = "OnSetGameState" /\ gameState # GAMESTATE_INGAME)
        => (MapIsEmpty /\ MapClear(St) = St)

\* the map that was cleared held spawn and location objects, marker lines,
\* a target line and a circle
C13_Witness ==
    /\ lastOp = "OnSetGameState" /\ gameState # GAMESTATE_INGAME
    /\ snap.update.pTargetLine # NULL
    /\ snap.update.pLastTarget # NULL
    /\ snap.update.gMapLocTemplates # <<>>
    /\ \E o \in DOMAIN snap.update.objs : snap.update.objs[o].m_markerLines # <<>>
    /\ snap.update.circles["CastCircle"].m_components[0] # NULL
    /\ MapIsEmpty

\* MapClear was called before anything was generated
C13_WitnessNothingGenerated ==
    /\ lastOp = "OnSetGameState" /\ gameState # GAMESTATE_INGAME
    /\ snap.update.lastOp = "Initialize"

-----------------------------------------------------------------------------
(* The map API called directly (SpecApi): MapAttach, MapDetach, MapClear,  *)
(* MapGenerate and MapUpdate in any order, as a caller outside the frame   *)
(* hook may call them.  A state whose engine tail pointer designates a     *)
(* freed node is not taken further: every API call on it reads or writes   *)
(* freed memory.                                                           *)

ApiStarts ==
    { [OnSetGameState(Initialize(
        [spawnInfo |-> WorldOf(list, [sp \in Spawns |-> IF sp = 1 THEN "PC" ELSE "NPC"]),
         pSpawnList |-> list, groundList |-> {}, pTarget |-> NULL,
         gameLabels |-> gl, gameLines |-> gn,
         Enabled |-> [DefaultEnabled EXCEPT !["NormalLabels"] = normal,
                                            !["CastRadius"] = cast],
         Marker |-> NoMarkers]),
        GAMESTATE_INGAME) EXCEPT !.s_mapViewMap = TRUE] :
      normal \in BOOLEAN, cast \in BOOLEAN, list \in {{}, {1}},
      gl \in {NULL, HostLabelNode}, gn \in {NULL, HostLineNode} }

InitApi == \E m \in ApiStarts : Start(m)

\* the engine's tail pointers designate live nodes (or nothing)
ChainsSound ==
    /\ gpLabelList \in DOMAIN labels \cup {NULL}
    /\ gpLabelListTail \in DOMAIN labels \cup {NULL}
    /\ gpLineList \in DOMAIN lines \cup {NULL}
    /\ gpLineListTail \in DOMAIN lines \cup {NULL}

Attached == s_labelsAttached \/ s_linesAttached

\* a call of an API function; the state before the last MapAttach is kept
\* while the chains stay attached
ApiCall(m, op) ==
    /\ pc = "idle"
    /\ ChainsSound
    /\ events < MaxEvents
    /\ Commit([m EXCEPT !.lastOp = op, !.frameLog = <<>>])
    /\ snap' = [NoSnap EXCEPT !.attach = IF op = "MapAttach" THEN St ELSE snap.attach,
                              !.detach = St]
    /\ added' = added
    /\ events' = events + 1

Api_MapAttach == ~Attached /\ ApiCall(MapAttach(St), "MapAttach")
Api_MapDetach == pc = "idle" /\ ApiCall(MapDetach(St), "MapDetach")
Api_MapClear == pc = "idle" /\ ApiCall(MapClear(St), "MapClear")
Api_MapGenerate == ~Attached /\ ApiCall(MapGenerate(St), "MapGenerate")

NextApi ==
    \/ Api_MapAttach
    \/ Api_MapDetach
    \/ Api_MapClear
    \/ Api_MapGenerate

SpecApi == InitApi /\ [][NextApi]_vars

\* C14: a MapClear called while an attached flag is set detaches first:
\* after it the host's label and line heads have the values they had before
\* MapAttach, no host head designates a freed engine node, and both
\* attached flags are false
C14_ClearWhileAttachedDetaches ==
    (lastOp = "MapClear" /\ (snap.detach.s_labelsAttached \/ snap.detach.s_linesAttached))
        => /\ gameLabels = snap.attach.gameLabels
           /\ gameLines = snap.attach.gameLines
           /\ gameLabels \notin DOMAIN snap.detach.labels
           /\ gameLines \notin DOMAIN snap.detach.lines
           /\ ~s_labelsAttached
           /\ ~s_linesAttached

-----------------------------------------------------------------------------
(* Faults in MapUpdate and the regenerate that follows (SpecFault): frames *)
(* enter the hook, MapUpdate runs or faults, and between frames spawns     *)
(* come and go, the local player disappears in a zone transition and the   *)
(* game changes state.                                                     *)

InitFault ==
    Start(OnSetGameState(Initialize(
        [spawnInfo |-> WorldOf({1}, [sp \in Spawns |-> TypeOfHandle(sp)]),
         pSpawnList |-> {1}, groundList |-> {}, pTarget |-> NULL,
         gameLabels |-> HostLabelNode, gameLines |-> HostLineNode,
         Enabled |-> DefaultEnabled, Marker |-> NoMarkers]),
        GAMESTATE_INGAME))

\* PostDraw_Detour is called and returns, or reaches the MapUpdate call of
\* PostDraw_MapLogic; the state the call found is kept
Hook_Enter ==
    /\ pc = "idle"
    /\ \E e \in {PostDraw_Detour(St)} :
            Commit(IF e.pc = "idle" THEN e ELSE MapLogicStep(e))
    /\ snap' = [NoSnap EXCEPT !.attach = St]
    /\ added' = added
    /\ events' = events

\* MapUpdate faults, before or after its effects: the __except block runs
Hook_FaultInUpdate ==
    /\ pc = "MapUpdate"
    /\ events < MaxEvents
    /\ \E partial \in {St, [MapUpdate(St) EXCEPT !.pc = "MapUpdate"]} :
        \E e \in {FaultHandlerEntry(partial)} :
            /\ Commit(FaultHandlerExit(e))
            /\ snap' = [snap EXCEPT !.detach = e]
    /\ added' = added
    /\ events' = events + 1

\* the local player goes away in a zone transition, or is back
Game_LocalPlayer(b) ==
    /\ pc = "idle"
    /\ events < MaxEvents
    /\ b # pLocalPlayer
    /\ Commit([St EXCEPT !.pLocalPlayer = b, !.lastOp = "Other", !.frameLog = <<>>])
    /\ snap' = NoSnap
    /\ added' = added
    /\ events' = events + 1

NextFault ==
    \/ Hook_Enter
    \/ Frame_Run
    \/ Hook_FaultInUpdate
    \/ \E sp \in Spawns : Game_AddSpawn(sp, Names[TypeOfHandle(sp)])
    \/ \E sp \in Spawns : Game_RemoveSpawn(sp)
    \/ \E b \in BOOLEAN : Game_LocalPlayer(b)
    \/ \E gs \in {GAMESTATE_POSTCHARSELECT, GAMESTATE_INGAME} : Game_SetGameState(gs)

SpecFault == InitFault /\ [][NextFault]_vars

\* the hook has just been entered and has not run MapUpdate yet
JustEntered == snap.attach # <<>> /\ snap.update = <<>> /\ snap.detach = <<>>

\* the handler of a fault in MapUpdate has just returned
JustFaulted == pc = "idle" /\ snap.detach # <<>> /\ EndsWith(frameLog, <<"fault", "MapDetach">>)

\* the Object Index and the chains of two states are the same
SameIndex(a, b) ==
    /\ a.objs = b.objs /\ a.gpActiveMapObjects = b.gpActiveMapObjects
    /\ a.SpawnMap = b.SpawnMap /\ a.GroundItemMap = b.GroundItemMap
    /\ a.labels = b.labels /\ a.gpLabelList = b.gpLabelList
    /\ a.lines = b.lines /\ a.gpLineList = b.gpLineList
    /\ a.LabelMap = b.LabelMap /\ a.pLastTarget = b.pLastTarget

\* the frame runs the map logic: cooldown over, rendering enabled, in game,
\* the local player present
RunsMapLogic(m) ==
    /\ m.s_postDrawFaultCooldown = 0
    /\ m.s_mapRenderEnabled
    /\ m.gameState = GAMESTATE_INGAME
    /\ m.pLocalPlayer

\* C15: after a fault in MapUpdate the handler has emptied the Object Index
\* and set the regenerate flag; a frame that runs the map logic with the
\* flag pending and a local player present first clears and regenerates from
\* the current world snapshot, and no MapUpdate starts while the flag is set
C15_FaultClearsThenRegenerates ==
    /\ JustFaulted =>
        /\ MapIsEmpty
        /\ s_needsRegenerate
        /\ s_postDrawFaultCooldown = FaultCooldownFrames
    /\ pc = "MapUpdate" => ~s_needsRegenerate
    /\ (JustEntered /\ snap.attach.s_needsRegenerate /\ RunsMapLogic(snap.attach)) =>
        /\ pc = "MapUpdate"
        /\ SameIndex(St, MapGenerate(MapClear(snap.attach)))
    /\ (JustEntered /\ snap.attach.s_needsRegenerate /\ ~RunsMapLogic(snap.attach)) =>
        /\ pc = "idle"
        /\ s_needsRegenerate

\* the regenerate after a fault found a spawn that was not there at the fault
C15_Witness ==
    /\ JustEntered /\ snap.attach.s_needsRegenerate /\ RunsMapLogic(snap.attach)
    /\ snap.attach.objs = <<>>
    /\ snap.attach.pSpawnList = {2}
    /\ pc = "MapUpdate"
    /\ DOMAIN SpawnMap = {2}

\* the handler of a fault in MapUpdate has just emptied a non-empty index
C15_WitnessFault ==
    /\ JustFaulted
    /\ snap.attach.objs # <<>>
    /\ s_needsRegenerate

-----------------------------------------------------------------------------
(* Regenerate on a filter change (SpecRegen): /mapfilter lines on options  *)
(* with and without the Regenerate flag, /mapshow (explicit objects),      *)
(* spawns that leave, targets and frames.                                  *)

RegenSample == {"Target", "Custom", "NPC"}

InitRegen ==
    Start(OnSetGameState(Initialize(
        [spawnInfo |-> WorldOf(Spawns, [sp \in Spawns |-> TypeOfHandle(sp)]),
         pSpawnList |-> Spawns, groundList |-> {}, pTarget |-> NULL,
         gameLabels |-> HostLabelNode, gameLines |-> HostLineNode,
         Enabled |-> DefaultEnabled, Marker |-> NoMarkers]),
        GAMESTATE_INGAME))

NextRegen ==
    \/ Frame_Enter
    \/ Frame_Run
    \/ \E o \in RegenSample, szValue \in {"hide", "show"} :
            Cmd_MapFilterLine(o, szValue, "Toggle")
    \/ Cmd_MapShow
    \/ \E sp \in Spawns : Game_RemoveSpawn(sp)
    \/ \E t \in {NULL} \cup Spawns : Game_SetTarget(t)

SpecRegen == InitRegen /\ [][NextRegen]_vars

\* a /mapfilter line has just changed the Enabled bit of a Regenerate option
JustToggledRegenerate ==
    /\ lastOp = "Toggle" /\ frameLog = <<>>
    /\ snap.opt \in RegenerateOptions
    /\ Enabled[snap.opt] # snap.update.Enabled[snap.opt]

\* the snapshot spawns that satisfy the visibility predicate
VisibleSpawns(m) ==
    {sp \in m.pSpawnList : CanDisplaySpawnObject(m, GetSpawnType(m, sp), sp)}

\* C16: after a /mapfilter line has toggled an option flagged Regenerate,
\* the index is the one MapClear and MapGenerate build from nothing: no
\* explicit object, no last target, and, with All enabled, one spawn object
\* in the active list for exactly the snapshot spawns that satisfy the
\* visibility predicate under the new filter values
C16_ToggleRegenerates ==
    JustToggledRegenerate =>
        /\ SameIndex(St, MapGenerate(MapClear(St)))
        /\ \A o \in DOMAIN objs : objs[o].kind = "spawn" => ~objs[o].m_explicit
        /\ IsOptionEnabled(St, "All") =>
            /\ DOMAIN SpawnMap = VisibleSpawns(St)
            /\ \A sp \in Spawns :
                    SpawnObjects(sp) = IF sp \in VisibleSpawns(St) THEN {SpawnMap[sp]} ELSE {}
            /\ ActiveObjects(objs, gpActiveMapObjects, MaxObjects) = DOMAIN objs

\* the toggle found an explicit object and a last target, and a spawn that
\* the new filter values hide
C16_Witness ==
    /\ JustToggledRegenerate
    /\ \E o \in DOMAIN snap.update.objs : snap.update.objs[o].m_explicit
    /\ snap.update.pLastTarget # NULL
    /\ Cardinality(DOMAIN snap.update.SpawnMap) = 2
    /\ Cardinality(DOMAIN SpawnMap) = 1

-----------------------------------------------------------------------------
(* The factory functions called directly (SpecMake): MakeMapObject for a   *)
(* spawn, explicit or not, and for a ground item, under filter tables that *)
(* show and hide NPCs and ground items; RemoveSpawn and RemoveGroundItem   *)
(* make room again.                                                        *)

MakeStarts ==
    { Initialize(
        [spawnInfo |-> WorldOf(Spawns, [sp \in Spawns |-> IF sp = 1 THEN "PC" ELSE "NPC"]),
         pSpawnList |-> Spawns, groundList |-> GroundItems, pTarget |-> NULL,
         gameLabels |-> NULL, gameLines |-> NULL,
         Enabled |-> [DefaultEnabled EXCEPT !["NPC"] = npc, !["Ground"] = ground,
                                            !["Marker"] = TRUE],
         Marker |-> [NoMarkers EXCEPT !["PC"] = "Triangle"]]) :
      npc \in BOOLEAN, ground \in BOOLEAN }

InitMake == \E m \in MakeStarts : Start(m)

\* MakeMapObject(pSpawn, Explicit); the state before the call is kept
Api_MakeMapObject(sp, explicit) ==
    /\ Cardinality(DOMAIN objs) < MaxObjects
    /\ Commit([MakeMapObject(St, sp, explicit) EXCEPT
                  !.lastOp = IF explicit THEN "MakeMapObject (explicit)"
                             ELSE "MakeMapObject"])
    /\ snap' = [NoSnap EXCEPT !.update = St, !.arg = sp]
    /\ added' = added
    /\ events' = events

\* MakeMapObject(pGroundItem)
Api_MakeGroundObject(gi) ==
    /\ Cardinality(DOMAIN objs) < MaxObjects
    /\ Commit([MakeGroundObject(St, gi) EXCEPT !.lastOp = "MakeMapObject (ground)"])
    /\ snap' = [NoSnap EXCEPT !.update = St, !.arg = gi]
    /\ added' = added
    /\ events' = events

NextMake ==
    \/ \E sp \in Spawns, explicit \in BOOLEAN : Api_MakeMapObject(sp, explicit)
    \/ \E gi \in GroundItems : Api_MakeGroundObject(gi)
    \/ \E sp \in Spawns : Api_RemoveSpawn(sp)
    \/ \E gi \in GroundItems : Api_RemoveGroundItem(gi)

SpecMake == InitMake /\ [][NextMake]_vars

\* the last call was a MakeMapObject in one of its not-created cases
MakeRefused ==
    \/ /\ lastOp = "MakeMapObject"
       /\ ~CanDisplaySpawnObject(snap.update, GetSpawnType(snap.update, snap.arg), snap.arg)
    \/ /\ lastOp = "MakeMapObject (ground)"
       /\ ~IsOptionEnabled(snap.update, "Ground")

MakeCalled == lastOp \in {"MakeMapObject", "MakeMapObject (explicit)", "MakeMapObject (ground)"}

\* what the last call returned
MakeReturned ==
    IF lastOp = "MakeMapObject (ground)"
    THEN IF IsOptionEnabled(snap.update, "Ground") THEN NewAddr(snap.update.objs) ELSE NULL
    ELSE MakeMapObjectResult(snap.update, snap.arg, lastOp = "MakeMapObject (explicit)")

\* object n is new, heads the active list in front of the old head, is
\* registered under the handle, owns a label the label map gives back to it,
\* and PostInit has set its label position and text and drawn its marker
MadeOne(pre, n, h) ==
    /\ n \notin DOMAIN pre.objs
    /\ DOMAIN objs = DOMAIN pre.objs \cup {n}
    /\ \A o \in DOMAIN pre.objs :
            objs[o] = IF o = pre.gpActiveMapObjects
                      THEN [pre.objs[o] EXCEPT !.m_pLast = n] ELSE pre.objs[o]
    /\ gpActiveMapObjects = n
    /\ objs[n].m_pNext = pre.gpActiveMapObjects
    /\ objs[n].handle = h
    /\ IF lastOp = "MakeMapObject (ground)"
       THEN /\ objs[n].kind = "ground"
            /\ GroundItemMap = Put(pre.GroundItemMap, h, n)
            /\ SpawnMap = pre.SpawnMap
       ELSE /\ objs[n].kind = "spawn"
            /\ objs[n].m_explicit = (lastOp = "MakeMapObject (explicit)")
            /\ SpawnMap = Put(pre.SpawnMap, h, n)
            /\ GroundItemMap = pre.GroundItemMap
    /\ objs[n].m_label \in DOMAIN labels \ DOMAIN pre.labels
    /\ LabelMap = Put(pre.LabelMap, objs[n].m_label, n)
    /\ labels[objs[n].m_label].Location = RenderPoint(objs[n].m_pos)
    /\ labels[objs[n].m_label].Label # <<>>
    /\ IsOptionEnabled(St, "Marker") =>
            /\ objs[n].m_marker = OptionMarker(St, GetMapFilter(St, n))
            /\ Len(objs[n].m_markerLines) = GetNumMarkerSides(objs[n].m_marker)
    /\ DOMAIN lines = DOMAIN pre.lines \cup Range(objs[n].m_markerLines)
    /\ Range(objs[n].m_markerLines) \cap DOMAIN pre.lines = {}

\* C18: MakeMapObject for a spawn that fails the visibility predicate while
\* not explicit, and for a ground item while Ground is not enabled, returns
\* null and leaves the active list, both maps, the label chain, the line
\* chain and the label map as they were; every other call constructs one
\* object, registers it under its handle, runs PostInit on it and returns it
C18_MakeMapObject ==
    MakeCalled =>
        IF MakeRefused
        THEN MakeReturned = NULL /\ SameIndex(St, snap.update)
        ELSE MakeReturned # NULL /\ MadeOne(snap.update, MakeReturned, snap.arg)

\* a hidden NPC was refused while the index held an object
C18_WitnessRefused ==
    /\ MakeCalled /\ MakeRefused
    /\ lastOp = "MakeMapObject"
    /\ snap.update.objs # <<>>

\* an explicit object was made for a hidden NPC
C18_Witness ==
    /\ lastOp = "MakeMapObject (explicit)"
    /\ ~CanDisplaySpawnObject(snap.update, GetSpawnType(snap.update, snap.arg), snap.arg)
    /\ snap.update.objs # <<>>
    /\ MadeOne(snap.update, MakeReturned, snap.arg)

-----------------------------------------------------------------------------
(* MapHide and MapShow by query (SpecHide): the zone has a PC, an NPC and  *)
(* a ground item, and the user has set a location; queries select every    *)
(* spawn or the NPCs; the NPC filter is switched, the NPC is targeted and  *)
(* frames run MapUpdate in between.                                        *)

Searches == {ClearedSearch, [ClearedSearch EXCEPT !.SpawnType = "NPC"]}

InitHide ==
    Start(MapSetLocationCmd(
        OnSetGameState(Initialize(
            [spawnInfo |-> WorldOf(Spawns, [sp \in Spawns |-> TypeOfHandle(sp)]),
             pSpawnList |-> Spawns, groundList |-> GroundItems, pTarget |-> NULL,
             gameLabels |-> HostLabelNode, gameLines |-> HostLineNode,
             Enabled |-> [DefaultEnabled EXCEPT !["Ground"] = TRUE],
             Marker |-> NoMarkers]),
            GAMESTATE_INGAME),
        LocParams(0), <<>>, HomePos))

\* MapHide(Search); the state before, the query and the count are kept
Api_MapHide(search) ==
    /\ pc = "idle"
    /\ Commit([MapHide(St, search) EXCEPT !.lastOp = "MapHide", !.frameLog = <<>>])
    /\ snap' = [NoSnap EXCEPT !.update = St, !.opt = search.SpawnType,
                              !.arg = MapHideCount(St, search, gpActiveMapObjects)]
    /\ added' = added
    /\ events' = events

\* MapShow(Search)
Api_MapShow(search) ==
    /\ pc = "idle"
    /\ Commit([MapShow(St, search) EXCEPT !.lastOp = "MapShow", !.frameLog = <<>>])
    /\ snap' = [NoSnap EXCEPT !.update = St, !.opt = search.SpawnType,
                              !.arg = MapShowCount(St, search, pSpawnList)]
    /\ added' = added
    /\ events' = events

NextHide ==
    \/ Frame_Enter
    \/ Frame_Run
    \/ \E search \in Searches : Api_MapHide(search)
    \/ \E search \in Searches : Api_MapShow(search)
    \/ \E szValue \in {"hide", "show"} : Cmd_MapFilterLine("NPC", szValue, "Toggle")
    \/ \E t \in {NULL, 2} : Game_SetTarget(t)

SpecHide == InitHide /\ [][NextHide]_vars

\* the query of the last MapHide or MapShow
LastSearch == [ClearedSearch EXCEPT !.SpawnType = snap.opt]

\* an object without its links in the active list
Unlinked(obj) == [obj EXCEPT !.m_pNext = NULL, !.m_pLast = NULL]

\* the objects MapHide has to destroy: the spawn objects whose spawn matches
HideTargets(pre, q) ==
    {o \in DOMAIN pre.objs :
        pre.objs[o].kind = "spawn" /\ SpawnMatchesSearch(pre, q, pre.objs[o].handle)}

\* the spawns MapShow has to make an object for
ShowTargets(pre, q) ==
    {sp \in pre.pSpawnList :
        FindMapObject(pre, sp) = NULL /\ SpawnMatchesSearch(pre, q, sp)}

\* C20: MapHide(q) destroys the active spawn objects whose spawn matches q
\* and nothing else (no ground or location object, no other spawn object)
\* and returns their number; MapShow(q) makes an explicit object for the
\* snapshot spawns that match q and have no object, whatever the category
\* filters say, touches no other object and returns their number
C20_HideShowByQuery ==
    /\ (lastOp = "MapHide" /\ frameLog = <<>>) =>
        /\ DOMAIN objs = DOMAIN snap.update.objs \ HideTargets(snap.update, LastSearch)
        /\ \A o \in DOMAIN objs : Unlinked(objs[o]) = Unlinked(snap.update.objs[o])
        /\ ActiveObjects(objs, gpActiveMapObjects, Cardinality(DOMAIN objs) + 1) = DOMAIN objs
        /\ DOMAIN SpawnMap =
              {sp \in DOMAIN snap.update.SpawnMap :
                  ~SpawnMatchesSearch(snap.update, LastSearch, sp)}
        /\ \A sp \in DOMAIN SpawnMap : SpawnMap[sp] = snap.update.SpawnMap[sp]
        /\ GroundItemMap = snap.update.GroundItemMap
        /\ snap.arg = Cardinality(HideTargets(snap.update, LastSearch))
    /\ (lastOp = "MapShow" /\ frameLog = <<>>) =>
        /\ DOMAIN SpawnMap =
              DOMAIN snap.update.SpawnMap \cup ShowTargets(snap.update, LastSearch)
        /\ \A sp \in DOMAIN snap.update.SpawnMap : SpawnMap[sp] = snap.update.SpawnMap[sp]
        /\ \A sp \in ShowTargets(snap.update, LastSearch) :
              /\ SpawnMap[sp] \notin DOMAIN snap.update.objs
              /\ objs[SpawnMap[sp]].kind = "spawn"
              /\ objs[SpawnMap[sp]].handle = sp
              /\ objs[SpawnMap[sp]].m_explicit
        /\ DOMAIN objs =
              DOMAIN snap.update.objs
                \cup {SpawnMap[sp] : sp \in ShowTargets(snap.update, LastSearch)}
        /\ \A o \in DOMAIN snap.update.objs :
              Unlinked(objs[o]) = Unlinked(snap.update.objs[o])
        /\ ActiveObjects(objs, gpActiveMapObjects, Cardinality(DOMAIN objs) + 1) = DOMAIN objs
        /\ GroundItemMap = snap.update.GroundItemMap
        /\ snap.arg = Cardinality(ShowTargets(snap.update, LastSearch))

\* MapHide by type destroyed the NPC's object and left the PC's, the ground
\* item's and the location's
C20_Witness ==
    /\ lastOp = "MapHide" /\ frameLog = <<>>
    /\ snap.opt = "NPC"
    /\ snap.arg = 1
    /\ Cardinality(DOMAIN snap.update.objs) = 4
    /\ Cardinality(DOMAIN objs) = 3

\* MapShow made an explicit object for the NPC while the NPC filter is off
C20_WitnessShow ==
    /\ lastOp = "MapShow" /\ frameLog = <<>>
    /\ ~Enabled["NPC"]
    /\ snap.arg = 1
    /\ ShowTargets(snap.update, LastSearch) = {2}

-----------------------------------------------------------------------------
(* The template list (SpecLocList): templates are added, deleted one by    *)
(* one, selected and deleted by selection, or all deleted; a regenerate    *)
(* destroys and re-creates their objects in between.                       *)

MaxTemplates == 3

LocLabels == {<<>>, <<"i", "n", "n">>}

\* /maploc width 1: an X of two lines, no circle
ThinLocParams == [LocParams(0) EXCEPT !.width = 1]

InitLocList ==
    Start(OnSetGameState(Initialize(
        [spawnInfo |-> WorldOf({}, [sp \in Spawns |-> TypeOfHandle(sp)]),
         pSpawnList |-> {}, groundList |-> {}, pTarget |-> NULL,
         gameLabels |-> HostLabelNode, gameLines |-> HostLineNode,
         Enabled |-> DefaultEnabled, Marker |-> NoMarkers]),
        GAMESTATE_INGAME))

\* a call on the template list
LocListCall(m, op) ==
    /\ pc = "idle"
    /\ Commit([m EXCEPT !.lastOp = op, !.frameLog = <<>>])
    /\ snap' = NoSnap
    /\ added' = added
    /\ events' = events

\* make_unique<MapLocTemplate>(...) and AddMapLoc, as MapSetLocationCmd does
Api_AddMapLoc(labelText) ==
    /\ Len(gMapLocTemplates) < MaxTemplates
    /\ LocListCall(MapSetLocationCmd(St, ThinLocParams, labelText, HomePos), "AddMapLoc")

Api_DeleteMapLoc(k) ==
    /\ k \in DOMAIN gMapLocTemplates
    /\ LocListCall(DeleteMapLoc(St, gMapLocTemplates[k]), "DeleteMapLoc")

Api_SetSelected(k, selected) ==
    /\ k \in DOMAIN gMapLocTemplates
    /\ mapLocs[gMapLocTemplates[k]].m_mapObject # NULL
    /\ mapLocs[gMapLocTemplates[k]].m_isSelected # selected
    /\ LocListCall(SetSelected(St, gMapLocTemplates[k], selected), "SetSelected")

Api_DeleteSelectedMapLocs ==
    /\ gMapLocTemplates # <<>>
    /\ LocListCall(DeleteSelectedMapLocs(St), "DeleteSelectedMapLocs")

Api_DeleteAllMapLocs ==
    /\ gMapLocTemplates # <<>>
    /\ LocListCall(DeleteAllMapLocs(St), "DeleteAllMapLocs")

\* /mapfilter target show: the setting stays, the map is regenerated
Cmd_Regenerate ==
    /\ gMapLocTemplates # <<>>
    /\ LocListCall(MapFilters(St, "Target", "show"), "Regenerate")

NextLocList ==
    \/ \E labelText \in LocLabels : Api_AddMapLoc(labelText)
    \/ \E k \in 1..MaxTemplates : Api_DeleteMapLoc(k)
    \/ \E k \in 1..MaxTemplates : Api_SetSelected(k, TRUE)
    \/ Api_DeleteSelectedMapLocs
    \/ Api_DeleteAllMapLocs
    \/ Cmd_Regenerate

SpecLocList == InitLocList /\ [][NextLocList]_vars

\* C21: the k-th template of the list has index k, GetMapLocByIndex(k)
\* returns it and returns none outside 1..size, no template is listed
\* twice, every listed template is live, and the text of its object starts
\* with k
C21_LocIndexesContiguous ==
    /\ \A k \in DOMAIN gMapLocTemplates :
        /\ gMapLocTemplates[k] \in DOMAIN mapLocs
        /\ mapLocs[gMapLocTemplates[k]].m_index = k
        /\ GetMapLocByIndex(St, k) = gMapLocTemplates[k]
        /\ \A j \in DOMAIN gMapLocTemplates : j # k => gMapLocTemplates[j] # gMapLocTemplates[k]
        /\ mapLocs[gMapLocTemplates[k]].m_mapObject # NULL =>
            /\ mapLocs[gMapLocTemplates[k]].m_mapObject \in DOMAIN objs
            /\ Head(objs[mapLocs[gMapLocTemplates[k]].m_mapObject].m_text) = ToString(k)
            /\ labels[objs[mapLocs[gMapLocTemplates[k]].m_mapObject].m_label].Label
                  = objs[mapLocs[gMapLocTemplates[k]].m_mapObject].m_text
    /\ \A k \in {-1, 0, Len(gMapLocTemplates) + 1} : GetMapLocByIndex(St, k) = NULL
    /\ DOMAIN mapLocs = {gMapLocTemplates[k] : k \in DOMAIN gMapLocTemplates}

\* the middle one of three templates was deleted: the third is now the
\* second, and its object says so
C21_Witness ==
    /\ lastOp = "DeleteMapLoc"
    /\ Len(gMapLocTemplates) = 2
    /\ gMapLocTemplates = <<1, 3>>
    /\ mapLocs[3].m_index = 2
    /\ mapLocs[3].m_mapObject # NULL
    /\ Head(objs[mapLocs[3].m_mapObject].m_text) = "2"

\* the selected templates were deleted and the rest renumbered
C21_WitnessSelected ==
    /\ lastOp = "DeleteSelectedMapLocs"
    /\ gMapLocTemplates = <<2>>
    /\ mapLocs[2].m_index = 1

-----------------------------------------------------------------------------
(* The two zone-transition triggers (SpecFault).                           *)

\* the hook gets as far as its game-state test
PastCooldown(m) ==
    /\ m.s_postDrawFaultCooldown = 0
    /\ m.s_mapRenderEnabled
    /\ m.gameState = GAMESTATE_INGAME

\* the local player is null while an object, a label or a line exists
NullPlayerTrigger(m) ==
    /\ PastCooldown(m)
    /\ ~m.pLocalPlayer
    /\ (m.gpActiveMapObjects # NULL \/ m.gpLabelList # NULL \/ m.gpLineList # NULL)

\* the active list has gone from populated to empty
DepletedTrigger(m) ==
    /\ PastCooldown(m)
    /\ m.pLocalPlayer
    /\ ~m.s_needsRegenerate
    /\ m.gpActiveMapObjects = NULL
    /\ m.s_hadMapObjects

\* C22: a frame that finds the local player null while anything exists, and
\* a frame that finds the active list emptied, both set the regenerate flag
\* and return through the host's PostDraw without the map logic; a frame
\* that finds the flag set and a local player present clears, regenerates
\* from the current snapshot, clears the flag and goes on to MapUpdate
C22_ZoneTransitionRecovery ==
    JustEntered =>
        /\ (NullPlayerTrigger(snap.attach) \/ DepletedTrigger(snap.attach)) =>
            /\ s_needsRegenerate
            /\ pc = "idle"
            /\ frameLog = <<"PostDraw_Original">>
        /\ NullPlayerTrigger(snap.attach) => MapIsEmpty
        /\ (PastCooldown(snap.attach) /\ snap.attach.pLocalPlayer
                /\ snap.attach.s_needsRegenerate) =>
            /\ ~s_needsRegenerate
            /\ SameIndex(St, MapGenerate(MapClear(snap.attach)))
            /\ pc = "MapUpdate"
            /\ frameLog = <<"SetMapViewMap">>

\* the spawns left one by one and the frame noticed the emptied list
C22_Witness ==
    /\ JustEntered /\ DepletedTrigger(snap.attach)
    /\ s_needsRegenerate
    /\ snap.attach.pSpawnList = {}

\* the local player was null while objects existed
C22_WitnessNullPlayer ==
    /\ JustEntered /\ NullPlayerTrigger(snap.attach)
    /\ snap.attach.objs # <<>>
    /\ MapIsEmpty

\* the flag of a zone transition was pending and the frame regenerated
C22_WitnessRegenerated ==
    /\ JustEntered /\ snap.attach.s_needsRegenerate /\ snap.attach.pLocalPlayer
    /\ PastCooldown(snap.attach)
    /\ snap.attach.lastOp = "Other"
    /\ objs # <<>>

-----------------------------------------------------------------------------
(* Nothing is made or freed inside the attach window (SpecFrame).          *)

\* where the hook is before MapAttach or after the frame: the points at
\* which MapUpdate, MapClear and MapGenerate run
OutsideWindow == pc \in {"idle", "SetMapViewMap", "MapUpdate", "attach1"}

\* outside the attach window nothing is attached, and when the frame has
\* ended both engine tail links are null again
ReclaimedOutsideWindow ==
    /\ OutsideWindow => (~s_labelsAttached /\ ~s_linesAttached)
    /\ pc = "idle" => TailLinksNull

\* a step that starts with an attached flag set makes and frees no label,
\* line or object and leaves the circles and the target line alone
NodesFixedWhileAttached ==
    (s_labelsAttached \/ s_linesAttached) =>
        /\ DOMAIN labels' = DOMAIN labels
        /\ DOMAIN lines' = DOMAIN lines
        /\ objs' = objs
        /\ circles' = circles
        /\ pTargetLine' = pTargetLine
        /\ pLastTarget' = pLastTarget

\* C23: in the frame loop and its fault handler every construction and
\* destruction, circle update or clear, target-line change and MapClear
\* happens while both attached flags are false, and when the frame ends
\* both flags are false and both engine tail links are null
C23_NoChangeWhileSpliced ==
    []ReclaimedOutsideWindow /\ [][NodesFixedWhileAttached]_vars

\* a frame faulted with both chains attached, and its handler gave them back
C23_Witness ==
    /\ pc = "idle"
    /\ EndsWith(frameLog, <<"fault", "MapDetach">>)
    /\ snap.detach # <<>>
    /\ snap.detach.s_labelsAttached /\ snap.detach.s_linesAttached
    /\ labels = [a \in DOMAIN labels |->
                    [snap.detach.labels[a] EXCEPT !.pNext =
                        IF a = gpLabelListTail THEN NULL ELSE @]]
    /\ ~s_labelsAttached /\ ~s_linesAttached
    /\ TailLinksNull

-----------------------------------------------------------------------------
(* The active list under constructions and destructions (SpecMake).        *)

\* the live objects without a successor
LastObjects == {o \in DOMAIN objs : objs[o].m_pNext = NULL}

\* C24: the active list is a well-formed doubly-linked list of exactly the
\* live objects, once each: the head has no predecessor and is the only
\* such node, every successor is live and points back, one node has no
\* successor, the walk from the head meets every live object, and an object
\* just constructed is the head
C24_ActiveListWellFormed ==
    /\ (gpActiveMapObjects = NULL) = (objs = <<>>)
    /\ gpActiveMapObjects # NULL =>
        /\ gpActiveMapObjects \in DOMAIN objs
        /\ objs[gpActiveMapObjects].m_pLast = NULL
        /\ Cardinality(LastObjects) = 1
    /\ \A o \in DOMAIN objs :
        /\ objs[o].m_pNext # NULL =>
            /\ objs[o].m_pNext \in DOMAIN objs
            /\ objs[objs[o].m_pNext].m_pLast = o
        /\ objs[o].m_pLast # NULL =>
            /\ objs[o].m_pLast \in DOMAIN objs
            /\ objs[objs[o].m_pLast].m_pNext = o
        /\ objs[o].m_pLast = NULL => o = gpActiveMapObjects
    /\ ActiveObjects(objs, gpActiveMapObjects, Cardinality(DOMAIN objs)) = DOMAIN objs
    /\ (MakeCalled /\ ~MakeRefused) => gpActiveMapObjects = MakeReturned

\* the middle one of three objects was destroyed
C24_Witness ==
    /\ lastOp \in {"RemoveSpawn", "RemoveGroundItem"}
    /\ Cardinality(DOMAIN objs) = 2
    /\ \E o \in DOMAIN objs :
        /\ o = gpActiveMapObjects
        /\ objs[o].m_pNext # NULL
        /\ objs[o].m_pNext # o + 1
        /\ objs[o].m_pNext # o - 1

\* the head, the tail and the only object were destroyed
C24_WitnessHead ==
    /\ lastOp = "RemoveSpawn"
    /\ objs = <<>>

-----------------------------------------------------------------------------
(* The target object across target changes (SpecTarget): frames, target    *)
(* changes, filter toggles, highlights and /mapshow, under a target naming *)
(* scheme that differs from the normal one.                                *)

\* the "Target" entry of the INI section "Naming Schemes"
LoadedTargetNameString == <<"T", ":", "%", "N">>

\* a null MQSpawnSearch pointer
NoSearch == <<>>

\* MapHighlight(pSearch): a null search takes every highlight away, any other
\* highlights the objects of the matching spawns
MapHighlight(m, pSearch) ==
    IF pSearch = NoSearch
    THEN [m EXCEPT !.objs = [o \in DOMAIN @ |-> [@[o] EXCEPT !.m_highlight = FALSE]]]
    ELSE [m EXCEPT !.objs = [o \in DOMAIN @ |->
            IF /\ GetSpawn(m, o) # NULL
               /\ SpawnMatchesSearch(m, pSearch, GetSpawn(m, o))
            THEN [@[o] EXCEPT !.m_highlight = TRUE]
            ELSE @[o]]]

\* in game with a player character and an NPC
InitTarget ==
    Start(OnSetGameState(
        [Initialize(
            [spawnInfo |-> WorldOf(Spawns, [sp \in Spawns |-> TypeOfHandle(sp)]),
             pSpawnList |-> Spawns, groundList |-> {}, pTarget |-> NULL,
             gameLabels |-> HostLabelNode, gameLines |-> HostLineNode,
             Enabled |-> DefaultEnabled, Marker |-> NoMarkers])
         EXCEPT !.MapTargetNameString = LoadedTargetNameString], GAMESTATE_INGAME))

\* MapHighlight is called
Api_MapHighlight(pSearch) ==
    /\ pc = "idle"
    /\ events < MaxEvents
    /\ MapHighlight(St, pSearch).objs # objs
    /\ Commit([MapHighlight(St, pSearch) EXCEPT !.lastOp = "Other", !.frameLog = <<>>])
    /\ snap' = NoSnap
    /\ added' = added
    /\ events' = events + 1

NextTarget ==
    \/ Frame_Enter
    \/ Frame_Run
    \/ \E t \in {NULL} \cup Spawns : Game_SetTarget(t)
    \/ \E sp \in Spawns : Game_Die(sp)
    \/ \E o \in {"NPC", "Target"}, szValue \in {"hide", "show"} : Cmd_MapFilters(o, szValue)
    \/ \E pSearch \in {NoSearch, ClearedSearch} : Api_MapHighlight(pSearch)
    \/ Cmd_MapShow

SpecTarget == InitTarget /\ [][NextTarget]_vars

\* MapUpdate starting from pre finds its target object obsolete
TargetChanged(pre) ==
    pre.pLastTarget # NULL /\ pre.objs[pre.pLastTarget].handle # pre.pTarget

\* a frame has just run MapUpdate from a state where the target had changed
\* away from the spawn of object a
ChangedAwayFrom(a) ==
    /\ UpdateRan
    /\ snap.update.pLocalPlayer
    /\ TargetChanged(snap.update)
    /\ a = snap.update.pLastTarget

\* the label of object o shows the normal naming scheme
NormalText(o) ==
    /\ objs[o].m_text = FormatString(St, o, MapNameString)
    /\ labels[objs[o].m_label].Label = objs[o].m_text

\* the walk forced the Update of a and of no other object, and the objects
\* it did not force kept their text unless their type changed or they are
\* the new target
ForcedOnly(a) ==
    \A o \in DOMAIN snap.update.objs :
        /\ Forced(o, snap.update.pLastTarget, TargetChanged(snap.update)) <=> o = a
        /\ (o # a /\ Survives(snap.update, o) /\ o # pLastTarget
                /\ objs[o].m_type = snap.update.objs[o].m_type
                /\ snap.update.objs[o].m_text # <<>>) =>
            objs[o].m_text = snap.update.objs[o].m_text

\* C25 (amended): in the MapUpdate pass of the frame in which the target
\* changes away from spawn A, the Update of A's object is forced (if the
\* object still qualifies for display) and no other Update is; after the
\* pass A's object carries the normal name-template text, not the target
\* text, and its category color, or the highlight color if it is highlighted
C25_OldTargetRestored ==
    UpdateRan => \A a \in DOMAIN snap.update.objs :
        ChangedAwayFrom(a) =>
            /\ ForcedOnly(a)
            /\ Survives(snap.update, a) =>
                /\ NormalText(a)
                /\ objs[a].m_color = IF objs[a].m_highlight THEN HighlightColor
                                     ELSE GetSpawnColor(St, a)
                /\ labels[objs[a].m_label].Color = objs[a].m_color

\* C25 as stated: after the pass A's object carries its category color
C25_AsStated ==
    UpdateRan => \A a \in DOMAIN snap.update.objs :
        (ChangedAwayFrom(a) /\ Survives(snap.update, a)) =>
            /\ NormalText(a)
            /\ objs[a].m_color = GetSpawnColor(St, a)

\* the target changed from the player character to the NPC and the object of
\* the player character went from the target text and color to its own
C25_Witness ==
    /\ UpdateRan
    /\ ChangedAwayFrom(snap.update.pLastTarget)
    /\ Survives(snap.update, snap.update.pLastTarget)
    /\ snap.update.objs[snap.update.pLastTarget].handle = 1
    /\ pTarget = 2
    /\ snap.update.objs[snap.update.pLastTarget].m_text = <<"T", ":", "B", "o", "b">>
    /\ snap.update.objs[snap.update.pLastTarget].m_color = OptionColor(St, "Target")
    /\ objs[snap.update.pLastTarget].m_text = <<"B", "o", "b">>
    /\ objs[snap.update.pLastTarget].m_color = OptionColor(St, "PC")

\* the same for a highlighted object
C25_WitnessHighlighted ==
    /\ UpdateRan
    /\ ChangedAwayFrom(snap.update.pLastTarget)
    /\ Survives(snap.update, snap.update.pLastTarget)
    /\ objs[snap.update.pLastTarget].m_highlight
    /\ objs[snap.update.pLastTarget].m_color = HighlightColor

\* a frame has just run MapUpdate with a local player, a target and the
\* Target filter enabled
TargetShown ==
    /\ UpdateRan
    /\ snap.update.pLocalPlayer
    /\ pTarget # NULL
    /\ IsOptionEnabled(St, "Target")

\* C26: after a MapUpdate pass with a local player, a target and the Target
\* filter enabled, pLastTarget is the live object of the active list that
\* wraps the target (the one the index held before the pass, if it held
\* one), and its label carries the color of the Target option and the text
\* of the target naming scheme
C26_TargetObjectMaintained ==
    TargetShown =>
        /\ pLastTarget \in ActiveObjects(objs, gpActiveMapObjects, Cardinality(DOMAIN objs))
        /\ objs[pLastTarget].kind = "spawn"
        /\ objs[pLastTarget].handle = pTarget
        /\ FindMapObject(St, pTarget) = pLastTarget
        /\ FindMapObject(snap.update, pTarget) \in {NULL, pLastTarget}
        /\ objs[pLastTarget].m_label # NULL
        /\ labels[objs[pLastTarget].m_label].Color = OptionColor(St, "Target")
        /\ labels[objs[pLastTarget].m_label].Label =
                FormatString(St, pLastTarget, MapTargetNameString)
        /\ objs[pLastTarget].m_color = OptionColor(St, "Target")
        /\ objs[pLastTarget].m_text = FormatString(St, pLastTarget, MapTargetNameString)

\* the pass created the object of a targeted NPC while the NPC filter was off
C26_Witness ==
    /\ TargetShown
    /\ pTarget = 2
    /\ spawnInfo[2].type = "NPC"
    /\ ~IsOptionEnabled(St, "NPC")
    /\ FindMapObject(snap.update, 2) = NULL
    /\ pLastTarget # NULL
    /\ objs[pLastTarget].m_text = <<"T", ":", "a", "_", "r", "a", "t">>

\* the target's object is highlighted and shows the target color
C26_WitnessHighlighted ==
    /\ TargetShown
    /\ pLastTarget # NULL
    /\ objs[pLastTarget].m_highlight
    /\ objs[pLastTarget].m_color # HighlightColor

-----------------------------------------------------------------------------
(* Explicit-show objects (SpecExplicit): /mapshow makes them; frames,      *)
(* filter toggles, target changes, MapHide and the removal of the spawn    *)
(* act on them.                                                            *)

\* the NPC of the zone
TheNPC == CHOOSE sp \in Spawns : TypeOfHandle(sp) = "NPC"

NextExplicit ==
    \/ Frame_Enter
    \/ Frame_Run
    \/ Cmd_MapShow
    \/ \E t \in {NULL, TheNPC} : Game_SetTarget(t)
    \/ \E o \in {"NPC", "Target"}, szValue \in {"hide", "show"} : Cmd_MapFilters(o, szValue)
    \/ Api_MapHide([ClearedSearch EXCEPT !.SpawnType = "NPC"])
    \/ Game_RemoveSpawn(TheNPC)

SpecExplicit == InitTarget /\ [][NextExplicit]_vars

\* the explicit-show spawn objects of a state
ExplicitObjects(m) ==
    {o \in DOMAIN m.objs : m.objs[o].kind = "spawn" /\ m.objs[o].m_explicit}

\* a step keeps every explicit-show object in the active list, or it is a
\* step outside MapUpdate that removes the spawn, hides by query, or clears
\* and regenerates (a command on a Regenerate option, or the frame hook with
\* s_needsRegenerate set)
ExplicitKept ==
    \A o \in ExplicitObjects(St) :
        \/ /\ o \in ActiveObjects(objs', gpActiveMapObjects', Cardinality(DOMAIN objs'))
           /\ objs'[o].kind = "spawn"
           /\ objs'[o].handle = objs[o].handle
           /\ objs'[o].m_explicit
        \/ /\ pc = "idle"
           /\ \/ objs[o].handle \notin pSpawnList'
              \/ lastOp' = "MapHide"
              \/ snap'.opt \in RegenerateOptions
              \/ s_needsRegenerate

\* C27: no MapUpdate pass destroys an explicit-show spawn object, whatever
\* the filters and the target are; such an object leaves the active list
\* only in a step of RemoveSpawn, MapHide or a clear and regenerate
C27_ExplicitSurvivesUpdate == [][ExplicitKept]_vars

\* a pass has kept the explicit-show object of an NPC that is not the target
\* while the NPC filter is off
C27_Witness ==
    /\ UpdateRan
    /\ snap.update.pLocalPlayer
    /\ ~IsOptionEnabled(St, "NPC")
    /\ \E o \in ExplicitObjects(snap.update) :
        /\ o \in ExplicitObjects(St)
        /\ objs[o].handle # pTarget
        /\ objs[o].m_type = "NPC"
        /\ ~CanDisplaySpawnObject(St, objs[o].m_type, objs[o].handle)

\* a pass has kept the explicit-show object of a spawn the target changed
\* away from
C27_WitnessOldTarget ==
    /\ UpdateRan
    /\ TargetChanged(snap.update)
    /\ snap.update.pLastTarget \in ExplicitObjects(St)
    /\ ~CanDisplaySpawnObject(St, objs[snap.update.pLastTarget].m_type,
                              objs[snap.update.pLastTarget].handle)

-----------------------------------------------------------------------------
(* The visibility of an NPC by its name (SpecNamed): the NPC enters and    *)
(* leaves the zone under sampled names while the NPC, Named and Custom     *)
(* filters and the target change.                                          *)

\* names on both sides of every test of the naming heuristic
NameSample ==
    {<<>>, <<"a", "_", "r", "a", "t">>, <<"A", "_", "r", "a", "t">>,
     <<"A", "n", "_", "o", "r", "c">>, <<"A", "n", "t">>, <<"A">>,
     <<"#", "B", "o", "b">>, <<"Z", "e", "d">>}

InitNamed ==
    \E name \in NameSample :
        Start(OnSetGameState(Initialize(
            [spawnInfo |-> [WorldOf(Spawns, [sp \in Spawns |-> TypeOfHandle(sp)])
                                EXCEPT ![TheNPC].name = name],
             pSpawnList |-> Spawns, groundList |-> {}, pTarget |-> NULL,
             gameLabels |-> HostLabelNode, gameLines |-> HostLineNode,
             Enabled |-> DefaultEnabled, Marker |-> NoMarkers]), GAMESTATE_INGAME))

NextNamed ==
    \/ \E name \in NameSample : Game_AddSpawn(TheNPC, name)
    \/ Game_RemoveSpawn(TheNPC)
    \/ \E t \in {NULL, TheNPC} : Game_SetTarget(t)
    \/ \E o \in {"NPC", "Named", "Custom"}, szValue \in {"hide", "show"} :
            Cmd_MapFilters(o, szValue)

SpecNamed == InitNamed /\ [][NextNamed]_vars

\* the index has just decided on the NPC through the visibility predicate:
\* OnAddSpawn for it, or a clear and regenerate while it is in the zone
JustDecided ==
    /\ TheNPC \in pSpawnList
    /\ spawnInfo[TheNPC].type = "NPC"
    /\ \/ lastOp = "OnAddSpawn" /\ snap.arg = TheNPC
       \/ snap.opt \in RegenerateOptions

\* the NPC is not the current target and the Custom filter is disabled
PlainNPC == pTarget # TheNPC /\ ~IsOptionEnabled(St, "Custom")

\* C28 (amended): for a non-explicit NPC spawn that is not the current
\* target, with the Custom filter disabled, the visibility predicate is true
\* if and only if the Named sub-filter is enabled and the name satisfies the
\* naming heuristic, or the Named sub-filter is not enabled and the NPC
\* filter is enabled
C28_NamedNarrowsNPC ==
    (JustDecided /\ PlainNPC) =>
        (FindMapObject(St, TheNPC) # NULL <=>
            IF IsOptionEnabled(St, "Named") THEN IsNamed(St, TheNPC)
            ELSE IsOptionEnabled(St, "NPC"))

\* C28 as stated: it is true if and only if the NPC filter is enabled, or the
\* Named sub-filter is enabled and the name satisfies the naming heuristic
C28_AsStated ==
    (JustDecided /\ PlainNPC) =>
        (FindMapObject(St, TheNPC) # NULL <=>
            \/ IsOptionEnabled(St, "NPC")
            \/ IsOptionEnabled(St, "Named") /\ IsNamed(St, TheNPC))

\* with Named enabled a named NPC got its object
C28_Witness ==
    /\ JustDecided /\ PlainNPC
    /\ lastOp = "OnAddSpawn"
    /\ IsOptionEnabled(St, "Named")
    /\ spawnInfo[TheNPC].name = <<"A", "n", "t">>
    /\ FindMapObject(St, TheNPC) # NULL
    /\ ~objs[FindMapObject(St, TheNPC)].m_explicit

\* with Named enabled an NPC named with the article got none
C28_WitnessCommon ==
    /\ JustDecided /\ PlainNPC
    /\ IsOptionEnabled(St, "Named")
    /\ IsOptionEnabled(St, "NPC")
    /\ spawnInfo[TheNPC].name = <<"A", "n", "_", "o", "r", "c">>
    /\ FindMapObject(St, TheNPC) = NULL

-----------------------------------------------------------------------------
(* The text of an object whose spawn had no name yet (SpecNaming): the     *)
(* player character enters the zone with or without its name, the game     *)
(* fills the name in, the NPC dies, the target changes, frames run.        *)

InitNaming ==
    Start(OnSetGameState(
        [Initialize(
            [spawnInfo |-> WorldOf({TheNPC}, [sp \in Spawns |-> TypeOfHandle(sp)]),
             pSpawnList |-> {TheNPC}, groundList |-> {}, pTarget |-> NULL,
             gameLabels |-> HostLabelNode, gameLines |-> HostLineNode,
             Enabled |-> DefaultEnabled, Marker |-> NoMarkers])
         EXCEPT !.MapTargetNameString = LoadedTargetNameString], GAMESTATE_INGAME))

NextNaming ==
    \/ Frame_Enter
    \/ Frame_Run
    \/ \E sp \in Players : \E name \in NamesAtCreation(sp) : Game_AddSpawn(sp, name)
    \/ \E sp \in Players : Game_NameSpawn(sp)
    \/ \E sp \in Players : Game_RemoveSpawn(sp)
    \/ Game_Die(TheNPC)
    \/ \E t \in {NULL} \cup Spawns : Game_SetTarget(t)

SpecNaming == InitNaming /\ [][NextNaming]_vars

\* the spawn objects a MapUpdate pass has just updated without forcing and
\* kept
UnforcedKept ==
    {o \in DOMAIN snap.update.objs :
        /\ snap.update.objs[o].kind = "spawn"
        /\ Survives(snap.update, o)
        /\ ~Forced(o, snap.update.pLastTarget, TargetChanged(snap.update))}

\* the pass found the text of o empty and the name of its spawn populated
NameArrived(o) ==
    /\ snap.update.objs[o].m_text = <<>>
    /\ spawnInfo[objs[o].handle].name # <<>>

\* the pass found a text on o and left its classification as it was
Settled(o) ==
    /\ snap.update.objs[o].m_text # <<>>
    /\ objs[o].m_type = snap.update.objs[o].m_type

\* C29 (amended): the first non-forced Update after the name of the spawn
\* becomes available sets an empty text to the formatted name; once the text
\* is non-empty and the classification is unchanged, a non-forced Update
\* leaves the text unchanged, except on the current target object, whose
\* text every Update sets to the target naming scheme
C29_EmptyTextRetried ==
    (UpdateRan /\ snap.update.pLocalPlayer) =>
        \A o \in UnforcedKept :
            /\ NameArrived(o) =>
                /\ objs[o].m_text # <<>>
                /\ objs[o].m_text =
                        FormatString(St, o, IF o = pLastTarget THEN MapTargetNameString
                                            ELSE MapNameString)
                /\ labels[objs[o].m_label].Label = objs[o].m_text
            /\ Settled(o) =>
                objs[o].m_text = IF o = pLastTarget
                                 THEN FormatString(St, o, MapTargetNameString)
                                 ELSE snap.update.objs[o].m_text

\* C29 as stated: a non-forced Update leaves every non-empty text unchanged
\* while the classification is unchanged
C29_AsStated ==
    (UpdateRan /\ snap.update.pLocalPlayer) =>
        \A o \in UnforcedKept :
            /\ NameArrived(o) =>
                objs[o].m_text \in {FormatString(St, o, MapNameString),
                                    FormatString(St, o, MapTargetNameString)}
            /\ Settled(o) => objs[o].m_text = snap.update.objs[o].m_text

\* the object of the player character was made without a name, and the pass
\* after the name arrived gave it its text
C29_Witness ==
    /\ UpdateRan /\ snap.update.pLocalPlayer
    /\ \E o \in UnforcedKept :
        /\ NameArrived(o)
        /\ o # pLastTarget
        /\ objs[o].m_text = <<"B", "o", "b">>

\* a later pass left that text alone
C29_WitnessSettled ==
    /\ UpdateRan /\ snap.update.pLocalPlayer
    /\ \E o \in UnforcedKept :
        /\ Settled(o)
        /\ o # pLastTarget
        /\ objs[o].handle \in Players
        /\ objs[o].m_text = <<"B", "o", "b">>

-----------------------------------------------------------------------------
(* The circles and the target line (SpecDecor): the INI file enables no    *)
(* radius option or a pair of them; the user sets radii, toggles           *)
(* TargetLine and All and changes the target; frames run.                  *)

\* the most radius options the user keeps enabled at a time
MaxCircles == 2
\* the user commands and target changes of one behaviour
MaxDecorEvents == 4

\* the radius options the INI file enables, and those the user sets
DecorStarts ==
    {{}, {"CastRadius", "TargetRadius"}, {"CampRadius", "TargetMelee"},
     {"PullRadius", "SpellRadius"}}
DecorRadiusSample == {"CastRadius", "TargetMelee"}

InitDecor ==
    \E on \in DecorStarts :
        Start(OnSetGameState(Initialize(
            [spawnInfo |-> WorldOf(Spawns, [sp \in Spawns |-> TypeOfHandle(sp)]),
             pSpawnList |-> Spawns, groundList |-> {}, pTarget |-> NULL,
             gameLabels |-> HostLabelNode, gameLines |-> HostLineNode,
             Enabled |-> [o \in MapFilter |-> DefaultEnabled[o] \/ o \in on],
             Marker |-> NoMarkers]), GAMESTATE_INGAME))

\* /mapfilter <radius option> <radius>
Cmd_MapFilterRadius(o, szRest) ==
    /\ pc = "idle"
    /\ events < MaxDecorEvents
    /\ Enabled[o] # (szRest = "30")
    /\ szRest = "30" => Cardinality({r \in RadiusOptions : Enabled[r]}) < MaxCircles
    /\ Commit([MapFilters(St, o, szRest) EXCEPT !.lastOp = "Radius", !.frameLog = <<>>])
    /\ snap' = [NoSnap EXCEPT !.opt = o]
    /\ added' = added
    /\ events' = events + 1

\* the player targets the NPC, or nothing
Decor_SetTarget(t) ==
    /\ events < MaxDecorEvents
    /\ Game_SetTarget(t)

\* /mapfilter <toggle option> hide|show
Decor_MapFilters(o, szValue) ==
    /\ events < MaxDecorEvents
    /\ Cmd_MapFilters(o, szValue)

NextDecor ==
    \/ Frame_Enter
    \/ Frame_Run
    \/ \E t \in {NULL, TheNPC} : Decor_SetTarget(t)
    \/ \E o \in DecorRadiusSample, szRest \in RadiusRests : Cmd_MapFilterRadius(o, szRest)
    \/ \E o \in {"TargetLine", "All"}, szValue \in {"hide", "show"} :
            Decor_MapFilters(o, szValue)

SpecDecor == InitDecor /\ [][NextDecor]_vars

\* the circles around the local player and its camp and pull points, each
\* with its option
PlayerCircleOption ==
    [CastCircle |-> "CastRadius", CampCircle |-> "CampRadius",
     PullCircle |-> "PullRadius", SpellCircle |-> "SpellRadius"]

\* circle c has every segment, each a line of its own on the line list
FullCircle(c) ==
    /\ \A i \in Segments : circles[c].m_components[i] \in DOMAIN lines
    /\ Cardinality({circles[c].m_components[i] : i \in Segments}) = CIRCLE_NUM_SEGMENTS
    /\ \A i \in Segments :
        circles[c].m_components[i] \in LineChain

\* circle c has no segment
NoCircle(c) == \A i \in Segments : circles[c].m_components[i] = NULL

\* C30: after a MapUpdate pass with a local player each of the cast, camp,
\* pull and spell circles has all 36 segments if its option is enabled and
\* none otherwise; the target line, the target-radius circle and the
\* target-melee circle exist only if there is a target and their option (and
\* with it Target) is enabled, and none of the three exists without a target
C30_CirclesFollowFilters ==
    (UpdateRan /\ snap.update.pLocalPlayer) =>
        /\ Cardinality(Segments) = 36
        /\ \A c \in DOMAIN PlayerCircleOption :
            IF IsOptionEnabled(St, PlayerCircleOption[c]) THEN FullCircle(c)
            ELSE NoCircle(c)
        /\ pTargetLine # NULL =>
            /\ pTarget # NULL
            /\ IsOptionEnabled(St, "TargetLine") /\ IsOptionEnabled(St, "Target")
            /\ pTargetLine \in DOMAIN lines
        /\ ~NoCircle("TargetCircle") =>
            /\ pTarget # NULL
            /\ IsOptionEnabled(St, "TargetRadius") /\ IsOptionEnabled(St, "Target")
            /\ FullCircle("TargetCircle")
        /\ ~NoCircle("TargetMeleeCircle") =>
            /\ pTarget # NULL
            /\ IsOptionEnabled(St, "TargetMelee") /\ IsOptionEnabled(St, "Target")
            /\ FullCircle("TargetMeleeCircle")
        /\ pTarget = NULL =>
            /\ pTargetLine = NULL
            /\ NoCircle("TargetCircle")
            /\ NoCircle("TargetMeleeCircle")

\* a pass drew the cast circle, the target line and the target-radius circle
C30_Witness ==
    /\ UpdateRan /\ snap.update.pLocalPlayer
    /\ FullCircle("CastCircle")
    /\ NoCircle("PullCircle")
    /\ pTargetLine # NULL
    /\ FullCircle("TargetCircle")

\* a pass took the camp circle, the target line and the target-melee circle
\* away
C30_WitnessCleared ==
    /\ UpdateRan /\ snap.update.pLocalPlayer
    /\ snap.update.circles["CampCircle"].m_components[0] # NULL
    /\ NoCircle("CampCircle")
    /\ snap.update.pTargetLine # NULL
    /\ snap.update.circles["TargetMeleeCircle"].m_components[0] # NULL
    /\ pTarget = NULL
    /\ pTargetLine = NULL

-----------------------------------------------------------------------------
(* The highlight pulse animation (SpecPulse): MapMod::OnPulse, the size    *)
(* and pulse arguments of /highlight, PulseReset and the marker side       *)
(* length the Make*Marker functions compute from them.                     *)

\* PulseReset()
PulseReset(m) ==
    [m EXCEPT !.HighlightPulseIncreasing = TRUE,
              !.HighlightPulseIndex = 0,
              !.HighlightPulseDiff = CDiv(m.HighlightSIDELEN, 10)]

\* an OnPulse that reverses only at the upper end
OnPulse_NoLowerTurn(m, elapsed) ==
    IF m.HighlightPulse /\ elapsed
    THEN LET inc == IF m.HighlightPulseIndex = 5
                    THEN ~m.HighlightPulseIncreasing
                    ELSE m.HighlightPulseIncreasing
         IN [m EXCEPT !.HighlightPulseIncreasing = inc,
                      !.HighlightPulseIndex = IF inc THEN @ + 1 ELSE @ - 1,
                      !.lastOp = "OnPulse"]
    ELSE [m EXCEPT !.lastOp = "OnPulse"]

\* MapMod::OnPulse(); `elapsed` is the test now > s_lastPulse + 50
OnPulse(m, elapsed) ==
    IF m.HighlightPulse /\ elapsed
    THEN LET inc == IF m.HighlightPulseIndex = 5 \/ m.HighlightPulseIndex = -5
                    THEN ~m.HighlightPulseIncreasing
                    ELSE m.HighlightPulseIncreasing
         IN [m EXCEPT !.HighlightPulseIncreasing = inc,
                      !.HighlightPulseIndex = IF inc THEN @ + 1 ELSE @ - 1,
                      !.lastOp = "OnPulse"]
    ELSE [m EXCEPT !.lastOp = "OnPulse"]

\* the size arguments of the model and what std::from_chars makes of them:
\* no digits or a value out of the range of int leave the default
SizeArgs == {"abc", "-1", "0", "5", "10", "25", "-20", "2000000000", "99999999999"}
GetIntFromString(str, defaultVal) ==
    CASE str = "-1" -> -1
      [] str = "0" -> 0
      [] str = "5" -> 5
      [] str = "10" -> 10
      [] str = "25" -> 25
      [] str = "-20" -> -20
      [] str = "2000000000" -> 2000000000
      [] OTHER -> defaultVal

\* MapHighlightCmd, argument "size <szArg>"
MapHighlightCmd_size(m, szArg) ==
    IF GetIntFromString(szArg, -1) = -1
    THEN [m EXCEPT !.lastOp = "HighlightSize"]
    ELSE [PulseReset([m EXCEPT !.HighlightSIDELEN =
                            GetIntFromString(szArg, m.HighlightSIDELEN)])
            EXCEPT !.lastOp = "HighlightSize"]

\* MapHighlightCmd, argument "pulse"
MapHighlightCmd_pulse(m) ==
    [PulseReset([m EXCEPT !.HighlightPulse = ~@]) EXCEPT !.lastOp = "HighlightPulse"]

\* the values an int addition a + b can leave: the sum, or, when the sum is
\* not an int (undefined behaviour), the two's-complement result or any
\* other int
IntAdd(a, b) ==
    CASE b > 0 /\ a > INT_MAX - b -> {(a - INT_MAX - 1) + (b - INT_MAX - 1),
                                       INT_MIN, -1, 0, INT_MAX}
      [] b < 0 /\ a < INT_MIN - b -> {(a + INT_MAX + 1) + (b + INT_MAX + 1),
                                       INT_MIN, -1, 0, INT_MAX}
      [] OTHER -> {a + b}

\* the int expression the Make*Marker functions assign to the unsigned
\* markerSideLen of a highlighted object
MarkerSideLen(m) ==
    IF m.HighlightPulse
    THEN IntAdd(m.HighlightSIDELEN, m.HighlightPulseIndex * m.HighlightPulseDiff)
    ELSE {m.HighlightSIDELEN}

\* the settings LoadMapSettings reads (HighSize, HighPulse)
LoadHighlight(m, size, pulse) ==
    [m EXCEPT !.HighlightSIDELEN = size, !.HighlightPulse = pulse,
              !.HighlightPulseIncreasing = TRUE, !.HighlightPulseIndex = 0,
              !.HighlightPulseDiff = CDiv(size, 10)]

InitPulse ==
    \E size \in {DefaultHighlightSIDELEN, 25}, pulse \in BOOLEAN :
        Start(OnSetGameState(
            LoadHighlight(
                Initialize([spawnInfo |-> WorldOf({}, [sp \in Spawns |-> "NPC"]),
                            pSpawnList |-> {}, groundList |-> {}, pTarget |-> NULL,
                            gameLabels |-> HostLabelNode, gameLines |-> HostLineNode,
                            Enabled |-> DefaultEnabled, Marker |-> NoMarkers]),
                size, pulse),
            GAMESTATE_INGAME))

Game_OnPulse(elapsed) ==
    /\ Commit(OnPulse(St, elapsed))
    /\ snap' = NoSnap
    /\ added' = added
    /\ events' = events

Cmd_HighlightSize(szArg) ==
    /\ Commit(MapHighlightCmd_size(St, szArg))
    /\ snap' = NoSnap
    /\ added' = added
    /\ events' = events

Cmd_HighlightPulse ==
    /\ Commit(MapHighlightCmd_pulse(St))
    /\ snap' = NoSnap
    /\ added' = added
    /\ events' = events

Api_PulseReset ==
    /\ Commit([PulseReset(St) EXCEPT !.lastOp = "PulseReset"])
    /\ snap' = NoSnap
    /\ added' = added
    /\ events' = events

NextPulse ==
    \/ \E elapsed \in BOOLEAN : Game_OnPulse(elapsed)
    \/ \E szArg \in SizeArgs : Cmd_HighlightSize(szArg)
    \/ Cmd_HighlightPulse
    \/ Api_PulseReset

SpecPulse == InitPulse /\ [][NextPulse]_vars

\* a pulse tick reverses the direction exactly when the index is +5 or -5
\* and moves the index one step in the new direction
TickTurnsAtEnds ==
    (lastOp' = "OnPulse" /\ HighlightPulseIndex' # HighlightPulseIndex) =>
        /\ (HighlightPulseIncreasing' # HighlightPulseIncreasing)
                <=> HighlightPulseIndex \in {5, -5}
        /\ HighlightPulseIndex' = IF HighlightPulseIncreasing'
                                  THEN HighlightPulseIndex + 1
                                  ELSE HighlightPulseIndex - 1

\* the pulse index is within [-5, 5], the step is base / 10 and the index is
\* 0 while the pulse is off
PulseIndexBounded ==
    /\ HighlightPulseIndex \in -5..5
    /\ HighlightPulseDiff = CDiv(HighlightSIDELEN, 10)
    /\ ~HighlightPulse => HighlightPulseIndex = 0
    /\ HighlightPulseIndex = 5 => HighlightPulseIncreasing
    /\ HighlightPulseIndex = -5 => ~HighlightPulseIncreasing

\* every value of base + index * step is on the side of zero base is on and
\* within 5 steps of base
PulseSizeBounded ==
    \A v \in MarkerSideLen(St) :
        /\ HighlightSIDELEN >= 0 => v >= 0
        /\ HighlightSIDELEN < 0 => v <= 0
        /\ LET d == v - HighlightSIDELEN
               step == IF HighlightPulseDiff >= 0 THEN HighlightPulseDiff
                       ELSE -HighlightPulseDiff
           IN d <= 5 * step /\ -d <= 5 * step

\* the part of C31 that holds for every size an int can hold: the index is
\* within [-5, 5] and a tick reverses exactly at +5 and -5
PulseIndexHolds ==
    /\ []PulseIndexBounded
    /\ [][TickTurnsAtEnds]_vars

\* the index stands at -5 on its way down with a size of 25
PulseAtLowerEnd ==
    /\ HighlightPulse /\ HighlightPulseIndex = -5 /\ ~HighlightPulseIncreasing
    /\ HighlightSIDELEN = 25

\* C31: under any interleaving of pulse ticks, PulseReset, size changes and
\* pulse toggles the pulse index stays within [-5, 5], heading down from +5
\* and up from -5, and the pulsing size base + index * (base / 10) stays
\* within 5 steps of base and, for base >= 0, is never negative
C31_PulseBounded ==
    /\ PulseIndexBounded
    /\ PulseSizeBounded

-----------------------------------------------------------------------------
(* Marker colors (SpecMarkerColor): both spawns are drawn with a marker;   *)
(* the target changes, spawns are highlighted and die, the Marker and      *)
(* Target filters are switched, frames are drawn.                          *)

InitMarkerColor ==
    Start(OnSetGameState(
        Initialize(
            [spawnInfo |-> WorldOf(Spawns, [sp \in Spawns |-> TypeOfHandle(sp)]),
             pSpawnList |-> Spawns, groundList |-> {}, pTarget |-> NULL,
             gameLabels |-> HostLabelNode, gameLines |-> HostLineNode,
             Enabled |-> [DefaultEnabled EXCEPT !["Marker"] = TRUE],
             Marker |-> [NoMarkers EXCEPT !["PC"] = "Triangle", !["NPC"] = "Square",
                                          !["Corpse"] = "Square"]]),
        GAMESTATE_INGAME))

NextMarkerColor ==
    \/ Frame_Enter
    \/ Frame_Run
    \/ \E t \in {NULL} \cup Spawns : Game_SetTarget(t)
    \/ \E sp \in Spawns : Game_Die(sp)
    \/ \E o \in {"Marker", "Target"}, szValue \in {"hide", "show"} : Cmd_MapFilters(o, szValue)
    \/ \E pSearch \in {NoSearch, ClearedSearch} : Api_MapHighlight(pSearch)

SpecMarkerColor == InitMarkerColor /\ [][NextMarkerColor]_vars

\* every marker line of object o has the color of o's label
MarkerSynced(o) ==
    \A i \in 1..Len(objs[o].m_markerLines) :
        lines[objs[o].m_markerLines[i]].Color = labels[objs[o].m_label].Color

\* after a pass the marker lines of every object but the current target's
\* have the color of the object's label
MarkerSyncedButTarget ==
    UpdateRan => \A o \in DOMAIN objs : o # pLastTarget => MarkerSynced(o)

\* a pass has drawn the marker of a highlighted object that is not the target
MarkerSyncedHighlighted ==
    /\ UpdateRan
    /\ \E o \in DOMAIN objs :
        /\ o # pLastTarget /\ objs[o].m_highlight
        /\ objs[o].m_markerLines # <<>>
        /\ labels[objs[o].m_label].Color = HighlightColor

\* C32: after every MapUpdate pass every marker line of every object has the
\* color of that object's label, the current target's object and the
\* highlighted objects included
C32_MarkerColorSynced ==
    UpdateRan => \A o \in DOMAIN objs : MarkerSynced(o)

-----------------------------------------------------------------------------
(* FormatString (SpecFormat): a spawn object and a ground-item object are  *)
(* on the map; FormatString is called on them with every template of up to *)
(* MaxTemplateLen characters, the template lying in memory before any of   *)
(* the byte sequences AfterBytes.                                          *)

MaxTemplateLen == 3

\* a literal that is no specifier, the '%', and two specifiers
TemplateChars == {"a", "%", "N", "x"}

RECURSIVE TemplatesOfLen(_)
TemplatesOfLen(k) ==
    IF k = 0 THEN {<<>>}
    ELSE {Append(t, c) : t \in TemplatesOfLen(k - 1), c \in TemplateChars}

Templates == UNION {TemplatesOfLen(k) : k \in 0..MaxTemplateLen}

\* what follows the template's terminator in memory
AfterBytes == {<<>>, <<"a">>, <<"%">>}

InitFormat ==
    Start(OnSetGameState(
        Initialize(
            [spawnInfo |-> WorldOf(Spawns, [sp \in Spawns |-> TypeOfHandle(sp)]),
             pSpawnList |-> Spawns, groundList |-> GroundItems, pTarget |-> NULL,
             gameLabels |-> HostLabelNode, gameLines |-> HostLineNode,
             Enabled |-> [DefaultEnabled EXCEPT !["Ground"] = TRUE],
             Marker |-> NoMarkers]),
        GAMESTATE_INGAME))

\* FormatString(formatString) is called on object o; the observation keeps
\* the call and the string it returned
Api_FormatString(o, fmt, after) ==
    /\ o \in DOMAIN objs
    /\ Commit([St EXCEPT !.lastOp = "FormatString"])
    /\ snap' = [NoSnap EXCEPT !.arg = [o |-> o, fmt |-> fmt, after |-> after],
                              !.update = FormatStringIn(St, o, fmt, after)]
    /\ added' = added
    /\ events' = events

NextFormat ==
    \E o \in 1..(NumSpawns + NumGround), fmt \in Templates, after \in AfterBytes :
        Api_FormatString(o, fmt, after)

SpecFormat == InitFormat /\ [][NextFormat]_vars

\* the template ends in a '%' that is not the specifier of a '%' before it
RECURSIVE LoneTail(_, _)
LoneTail(fmt, n) ==
    IF n > Len(fmt) THEN FALSE
    ELSE IF fmt[n] # "%" THEN LoneTail(fmt, n + 1)
    ELSE IF n = Len(fmt) THEN TRUE
    ELSE LoneTail(fmt, n + 2)

\* the last call read no position after the template's terminator, and
\* returned what it returns whatever follows the terminator
ReadsWithinTemplate ==
    /\ FormatReads(Memory(snap.arg.fmt, snap.arg.after), 1) \subseteq 1..(Len(snap.arg.fmt) + 1)
    /\ snap.update = FormatString(St, snap.arg.o, snap.arg.fmt)

\* on every object '%%' appends '%' and the unrecognized specifier a appends
\* '%' a to what was produced before
SpecifiersPassThrough ==
    \A pre \in {<<>>, <<"a">>} :
        /\ HandleFormatSpecifier(St, snap.arg.o, "%", pre) = Append(pre, "%")
        /\ HandleFormatSpecifier(St, snap.arg.o, "a", pre) = pre \o <<"%", "a">>

\* the part of C33 that holds: a template that does not end in a lone '%' is
\* read up to its terminator and no further
FormatWithinUnlessLoneTail ==
    lastOp = "FormatString" =>
        /\ ~LoneTail(snap.arg.fmt, 1) => ReadsWithinTemplate
        /\ SpecifiersPassThrough

\* C33: FormatString makes one left-to-right pass over the template and
\* stops at its terminator for every template, a template ending in a lone
\* '%' included, and reads no position past the end of the template; '%%'
\* produces '%' and an unrecognized specifier c produces '%' c
C33_FormatStringSinglePass ==
    lastOp = "FormatString" =>
        /\ ReadsWithinTemplate
        /\ SpecifiersPassThrough

\* what the specifier c stands for on object o
SpecifierValue(o, c) == HandleFormatSpecifier(St, o, c, <<>>)

\* the literal characters and the specifier values of a template,
\* concatenated in template order
RECURSIVE Concatenated(_, _, _)
Concatenated(o, fmt, n) ==
    IF n > Len(fmt) THEN <<>>
    ELSE IF fmt[n] # "%" THEN <<fmt[n]>> \o Concatenated(o, fmt, n + 1)
    ELSE SpecifierValue(o, fmt[n + 1]) \o Concatenated(o, fmt, n + 2)

\* the part of C34 that holds: on a spawn object the result is the
\* concatenation, and on a ground item every specifier but N and n
\* falls back to the base handler
FormatConcatenatesOnSpawns ==
    (lastOp = "FormatString" /\ ~LoneTail(snap.arg.fmt, 1)) =>
        /\ objs[snap.arg.o].kind = "spawn" =>
                snap.update = Concatenated(snap.arg.o, snap.arg.fmt, 1)
        /\ objs[snap.arg.o].kind = "ground" =>
                \A c \in TemplateChars \ {"N"}, pre \in {<<>>, <<"a">>} :
                    GroundFormatSpecifier(St, snap.arg.o, c, pre)
                        = BaseFormatSpecifier(St, snap.arg.o, c, pre)

\* C34: for a ground-item object the result of FormatString is the template's
\* literal characters and the specifier values concatenated in template
\* order: %N appends the friendly name at its position and keeps what was
\* produced before it, every other specifier falls back to the base handler
C34_GroundFormatConcatenates ==
    (lastOp = "FormatString" /\ ~LoneTail(snap.arg.fmt, 1)
        /\ objs[snap.arg.o].kind = "ground") =>
        /\ snap.update = Concatenated(snap.arg.o, snap.arg.fmt, 1)
        /\ \A c \in TemplateChars \ {"N"}, pre \in {<<>>, <<"a">>} :
                GroundFormatSpecifier(St, snap.arg.o, c, pre)
                    = BaseFormatSpecifier(St, snap.arg.o, c, pre)

-----------------------------------------------------------------------------
(* The host's lists inside the attach window (SpecFrame).                  *)

\* MapAttach has returned and MapDetach has not run yet
InAttachWindow == pc \in {"PostDraw_Original", "MapDetach"}

\* the host's line list is the engine's lines followed by the lines the
\* host had before MapAttach
LinesSpliced ==
    /\ gameLines = gpLineList
    /\ Range(EngineChain(lines, gameLines, Cardinality(DOMAIN lines))) = DOMAIN lines
    /\ lines[gpLineListTail].pNext = snap.attach.gameLines

\* the host's label list is the engine's labels followed by `rest`
LabelsSpliced(rest) ==
    /\ gameLabels = gpLabelList
    /\ Range(EngineChain(labels, gameLabels, Cardinality(DOMAIN labels))) = DOMAIN labels
    /\ labels[gpLabelListTail].pNext = rest
    /\ pActualLabelList = snap.attach.gameLabels

\* C35: while attached (the attached flag of a chain is set, which MapAttach
\* does for every non-empty engine chain) the host's line list is the
\* engine's lines followed by the host's original lines; the host's label
\* list is the engine's labels followed by the host's original labels when
\* NormalLabels is enabled and the engine's labels alone, the tail link null,
\* when it is disabled; MapDetach restores the host's original label head.
\* The list of an empty engine chain is not attached and stays the host's.
C35_SplicedListsWhileAttached ==
    /\ InAttachWindow =>
        /\ s_linesAttached <=> gpLineList # NULL
        /\ s_labelsAttached <=> gpLabelList # NULL
        /\ s_linesAttached => LinesSpliced
        /\ ~s_linesAttached => gameLines = snap.attach.gameLines
        /\ s_labelsAttached =>
                LabelsSpliced(IF IsOptionEnabled(St, "NormalLabels")
                              THEN snap.attach.gameLabels ELSE NULL)
        /\ ~s_labelsAttached => gameLabels = snap.attach.gameLabels
    /\ pc = "log" => gameLabels = snap.attach.gameLabels

\* both chains are attached to non-empty host lists, NormalLabels is off
C35_Witness ==
    /\ InAttachWindow
    /\ s_labelsAttached /\ s_linesAttached
    /\ ~IsOptionEnabled(St, "NormalLabels")
    /\ snap.attach.gameLabels = HostLabelNode
    /\ snap.attach.gameLines = HostLineNode
    /\ labels[gpLabelListTail].pNext = NULL

\* the same with NormalLabels on: the host's labels follow the engine's
C35_WitnessNormalLabels ==
    /\ InAttachWindow
    /\ s_labelsAttached /\ s_linesAttached
    /\ IsOptionEnabled(St, "NormalLabels")
    /\ labels[gpLabelListTail].pNext = HostLabelNode
    /\ lines[gpLineListTail].pNext = HostLineNode

-----------------------------------------------------------------------------
(* The fault cooldown (SpecCooldown): the frame hook runs statement by     *)
(* statement and faults anywhere in the map logic; spawns come and go and  *)
(* the game state changes between frames.                                  *)

NextCooldown ==
    \/ Hook_Enter
    \/ PostDraw_Step
    \/ PostDraw_Fault
    \/ \E sp \in Players : Game_AddSpawn(sp, Names[TypeOfHandle(sp)])
    \/ \E sp \in Players : Game_RemoveSpawn(sp)
    \/ \E gs \in {GAMESTATE_POSTCHARSELECT, GAMESTATE_INGAME} : Game_SetGameState(gs)

SpecCooldown == InitFault /\ [][NextCooldown]_vars

\* the handler of a fault has just returned
FaultCaught == pc = "idle" /\ snap.detach # <<>> /\ EndsWith(frameLog, <<"fault", "MapDetach">>)

\* OnSetGameState(GAMESTATE_INGAME) has just run
JustSetInGame ==
    /\ lastOp = "OnSetGameState" /\ snap.update # <<>> /\ snap.attach = <<>>
    /\ gameState = GAMESTATE_INGAME

\* the invocation that has just returned or reached MapUpdate found a
\* cooldown pending: it counted it down by one and called the host's
\* PostDraw only, leaving the index, the chains and the host's lists alone
SkippedFrame ==
    (JustEntered /\ snap.attach.s_postDrawFaultCooldown > 0) =>
        /\ s_postDrawFaultCooldown = snap.attach.s_postDrawFaultCooldown - 1
        /\ pc = "idle"
        /\ frameLog = <<"PostDraw_Original">>
        /\ SameIndex(snap.attach, St)
        /\ gameLabels = snap.attach.gameLabels /\ gameLines = snap.attach.gameLines
        /\ s_labelsAttached = snap.attach.s_labelsAttached
        /\ s_linesAttached = snap.attach.s_linesAttached
        /\ s_needsRegenerate = snap.attach.s_needsRegenerate

CooldownCounts ==
    /\ s_postDrawFaultCooldown \in 0..FaultCooldownFrames
    /\ FaultCaught => s_postDrawFaultCooldown = FaultCooldownFrames
    /\ SkippedFrame
    /\ (JustEntered /\ RunsMapLogic(snap.attach) /\ ~DepletedTrigger(snap.attach)) =>
            pc = "MapUpdate"
    /\ JustSetInGame => s_postDrawFaultCooldown = 0

\* the cooldown changes in a fault handler, in an invocation of the hook
\* and in OnSetGameState(INGAME) only
CooldownChanges ==
    s_postDrawFaultCooldown' # s_postDrawFaultCooldown =>
        \/ FaultCaught' /\ s_postDrawFaultCooldown' = FaultCooldownFrames
        \/ JustEntered' /\ s_postDrawFaultCooldown' = s_postDrawFaultCooldown - 1
        \/ JustSetInGame' /\ s_postDrawFaultCooldown' = 0

\* C36: a caught fault sets the cooldown to 60; each of the next 60
\* invocations of the frame hook counts it down by one and calls only the
\* host renderer, without MapUpdate, MapAttach or MapDetach and without a
\* change to the Object Index; the invocation that finds it at zero runs the
\* map logic again; entering the in-game state resets it to zero at once
C36_FaultCooldown ==
    []CooldownCounts /\ [][CooldownChanges]_vars

\* the 60th invocation after a fault has counted the cooldown down to zero
C36_Witness ==
    /\ JustEntered
    /\ snap.attach.s_postDrawFaultCooldown = 1
    /\ s_postDrawFaultCooldown = 0
    /\ pc = "idle"

\* the invocation after it runs the map logic again: the flag the handler
\* of a fault in MapUpdate set was still pending
C36_WitnessRetry ==
    /\ JustEntered
    /\ snap.attach.s_postDrawFaultCooldown = 0
    /\ snap.attach.s_needsRegenerate
    /\ snap.attach.phase = 2
    /\ snap.attach.pLocalPlayer
    /\ pc = "MapUpdate"

\* entering the game cut a pending cooldown short
C36_WitnessReset ==
    /\ JustSetInGame
    /\ snap.update.s_postDrawFaultCooldown > 0
    /\ s_postDrawFaultCooldown = 0

-----------------------------------------------------------------------------
(* The current-target reference (SpecLastTarget): the target changes,      *)
(* spawns come and go, the user hides and shows spawns and switches the    *)
(* NPC and Target filters (a clear and regenerate), frames are drawn.      *)

NextLastTarget ==
    \/ Frame_Enter
    \/ Frame_Run
    \/ Cmd_MapShow
    \/ \E t \in {NULL} \cup Spawns : Game_SetTarget(t)
    \/ \E o \in {"NPC", "Target"}, szValue \in {"hide", "show"} : Cmd_MapFilters(o, szValue)
    \/ Api_MapHide([ClearedSearch EXCEPT !.SpawnType = "NPC"])
    \/ \E sp \in Spawns : Game_RemoveSpawn(sp)
    \/ \E sp \in Spawns : Game_AddSpawn(sp, Names[TypeOfHandle(sp)])

SpecLastTarget == InitTarget /\ [][NextLastTarget]_vars

\* pLastTarget is null or a live spawn object of the active list
LastTargetLive ==
    pLastTarget # NULL =>
        /\ pLastTarget \in ActiveObjects(objs, gpActiveMapObjects, Cardinality(DOMAIN objs))
        /\ objs[pLastTarget].kind = "spawn"

\* a step that destroys the object pLastTarget designates leaves
\* pLastTarget null, or, in a MapUpdate pass, on the live object of the
\* new target
DestroyedTargetReset ==
    (pLastTarget # NULL /\ pLastTarget \notin DOMAIN objs') =>
        \/ pLastTarget' = NULL
        \/ /\ pc = "MapUpdate"
           /\ pLastTarget' \in DOMAIN objs'
           /\ objs'[pLastTarget'].handle = pTarget

\* C37: at every reachable state, under any interleaving of frames, spawn
\* add and remove events, hide and show commands and clear/regenerate,
\* pLastTarget is null or designates a live object of the active list, and
\* destroying the object it designates, by any path, resets it to null
C37_LastTargetLiveOrNull ==
    []LastTargetLive /\ [][DestroyedTargetReset]_vars

\* /maphide took the object of the current target away
C37_Witness ==
    /\ lastOp = "MapHide"
    /\ snap.update.pLastTarget # NULL
    /\ snap.update.pLastTarget \notin DOMAIN objs
    /\ pLastTarget = NULL
    /\ pTarget # NULL

-----------------------------------------------------------------------------
(* Depletion and regeneration (SpecDepletion): spawns leave and enter one  *)
(* by one, the local player goes and comes back, the game state changes,   *)
(* frames are drawn.                                                       *)

NextDepletion ==
    \/ Hook_Enter
    \/ Frame_Run
    \/ \E sp \in Spawns : Game_AddSpawn(sp, Names[TypeOfHandle(sp)])
    \/ \E sp \in Spawns : Game_RemoveSpawn(sp)
    \/ \E b \in BOOLEAN : Game_LocalPlayer(b)
    \/ \E gs \in {GAMESTATE_POSTCHARSELECT, GAMESTATE_INGAME} : Game_SetGameState(gs)

SpecDepletion == InitFault /\ [][NextDepletion]_vars

\* the frame that finds the populated index emptied schedules a regenerate,
\* forgets that the index was populated and leaves the map logic out
DepletionSchedules ==
    (JustEntered /\ DepletedTrigger(snap.attach)) =>
        /\ s_needsRegenerate
        /\ ~s_hadMapObjects
        /\ pc = "idle"
        /\ gpActiveMapObjects = NULL

\* the frame that regenerates consumes the flag, records whether the index
\* is populated now and goes on to the map logic
RegenerateConsumes ==
    (JustEntered /\ RunsMapLogic(snap.attach) /\ snap.attach.s_needsRegenerate) =>
        /\ ~s_needsRegenerate
        /\ s_hadMapObjects = (gpActiveMapObjects # NULL)
        /\ pc = "MapUpdate"

\* a frame that finds the index empty with nothing pending runs the map
\* logic and schedules nothing
EmptyResumes ==
    (/\ JustEntered
     /\ RunsMapLogic(snap.attach)
     /\ ~snap.attach.s_needsRegenerate
     /\ ~snap.attach.s_hadMapObjects
     /\ snap.attach.gpActiveMapObjects = NULL) =>
        /\ ~s_needsRegenerate
        /\ ~s_hadMapObjects
        /\ gpActiveMapObjects = NULL
        /\ pc = "MapUpdate"

\* no step schedules a regenerate while the index stays empty and was not
\* seen populated
NoRescheduleWhileEmpty ==
    (/\ gpActiveMapObjects = NULL /\ gpActiveMapObjects' = NULL
     /\ ~s_needsRegenerate /\ ~s_hadMapObjects) =>
        (~s_needsRegenerate' /\ ~s_hadMapObjects')

\* C38: a populated-to-empty transition of the Object Index schedules one
\* regenerate; when that regenerate yields an empty index the flag is
\* consumed, no further regenerate is scheduled while the index stays
\* empty, and the map logic runs on that and the following frames
C38_DepletionRegeneratesOnce ==
    /\ [](DepletionSchedules /\ RegenerateConsumes /\ EmptyResumes)
    /\ [][NoRescheduleWhileEmpty]_vars

\* the regenerate scheduled by a depletion has produced an empty index and
\* the frame went on to the map logic
C38_Witness ==
    /\ JustEntered
    /\ RunsMapLogic(snap.attach)
    /\ snap.attach.s_needsRegenerate
    /\ ~snap.attach.s_hadMapObjects
    /\ snap.attach.pSpawnList = {}
    /\ gpActiveMapObjects = NULL
    /\ ~s_needsRegenerate
    /\ pc = "MapUpdate"

\* a later frame on the still empty index runs the map logic
C38_WitnessResumes ==
    /\ JustEntered
    /\ RunsMapLogic(snap.attach)
    /\ ~snap.attach.s_needsRegenerate
    /\ ~snap.attach.s_hadMapObjects
    /\ snap.attach.gpActiveMapObjects = NULL
    /\ events > 0
    /\ pc = "MapUpdate"

\* the frame that found the index depleted
C38_WitnessDepleted ==
    /\ JustEntered
    /\ DepletedTrigger(snap.attach)
    /\ s_needsRegenerate

-----------------------------------------------------------------------------
(* Labels and their owners (SpecLabels): frames are drawn statement by     *)
(* statement and may fault, spawns and ground items come and go, the user  *)
(* hides and shows spawns and sets and removes a location, the game state  *)
(* changes.                                                                *)

InitLabels ==
    Start(OnSetGameState(Initialize(
        [spawnInfo |-> WorldOf({1}, [sp \in Spawns |-> TypeOfHandle(sp)]),
         pSpawnList |-> {1}, groundList |-> {1}, pTarget |-> NULL,
         gameLabels |-> HostLabelNode, gameLines |-> HostLineNode,
         Enabled |-> [DefaultEnabled EXCEPT !["Ground"] = TRUE], Marker |-> NoMarkers]),
        GAMESTATE_INGAME))

\* the game and user events one behaviour of SpecLabels goes through
MaxLabelEvents == 4

\* a call between frames of which no observation is kept
Between(m, op) ==
    /\ pc = "idle"
    /\ events < MaxLabelEvents
    /\ Commit([m EXCEPT !.lastOp = op, !.frameLog = <<>>])
    /\ snap' = NoSnap
    /\ added' = added
    /\ events' = events + 1

\* a statement of the frame hook
Labels_Enter ==
    /\ pc = "idle"
    /\ \E e \in {PostDraw_Detour(St)} :
            Commit(IF e.pc = "idle" THEN e ELSE MapLogicStep(e))
    /\ UNCHANGED <<snap, added, events>>

Labels_Step ==
    /\ pc # "idle"
    /\ Commit(MapLogicStep(St))
    /\ UNCHANGED <<snap, added, events>>

Labels_Fault ==
    /\ pc # "idle"
    /\ events < MaxLabelEvents
    /\ \E partial \in {St} \cup (IF pc = "MapUpdate"
                                  THEN {[MapUpdate(St) EXCEPT !.pc = "MapUpdate"]}
                                  ELSE {}) :
            Commit(FaultHandlerExit(FaultHandlerEntry(partial)))
    /\ snap' = snap
    /\ added' = added
    /\ events' = events + 1

Labels_AddGroundItem(gi) ==
    Cardinality(DOMAIN objs) < MaxObjects /\ Between(AddGroundItem(St, gi), "AddGroundItem")
Labels_RemoveGroundItem(gi) == Between(RemoveGroundItem(St, gi), "RemoveGroundItem")
Labels_MapHide(search) == Between(MapHide(St, search), "MapHide")
Labels_MapSetLocation(params, labelText, pos) ==
    /\ Len(gMapLocTemplates) < MaxLocs
    /\ Between(MapSetLocationCmd(St, params, labelText, pos), "MapSetLocation")
Labels_MapRemoveLocation(index) ==
    /\ index \in 1..Len(gMapLocTemplates)
    /\ Between(MapRemoveLocation(St, index), "MapRemoveLocation")
Labels_AddSpawn(sp) == events < MaxLabelEvents /\ Game_AddSpawn(sp, Names[TypeOfHandle(sp)])
Labels_RemoveSpawn(sp) == events < MaxLabelEvents /\ Game_RemoveSpawn(sp)

NextLabels ==
    \/ Labels_Enter
    \/ Labels_Step
    \/ Labels_Fault
    \/ Labels_AddSpawn(2)
    \/ \E sp \in Spawns : Labels_RemoveSpawn(sp)
    \/ \E gi \in GroundItems : Labels_AddGroundItem(gi)
    \/ \E gi \in GroundItems : Labels_RemoveGroundItem(gi)
    \/ Labels_MapHide([ClearedSearch EXCEPT !.SpawnType = "NPC"])
    \/ Labels_MapSetLocation(LocParams(0), <<"i", "n", "n">>, HomePos)
    \/ Labels_MapRemoveLocation(1)

SpecLabels == InitLabels /\ [][NextLabels]_vars

\* the Labels the live objects own
OwnedLabels == {objs[o].m_label : o \in DOMAIN objs}

\* the engine's label chain from its head, up to the host's labels spliced
\* after it while attached
EngineLabelChain == EngineChain(labels, gpLabelList, Cardinality(DOMAIN labels) + 1)

\* every live object owns one live Label, and no two own the same
OneLabelEach ==
    /\ \A o \in DOMAIN objs : objs[o].m_label \in EngineLabels(St)
    /\ \A o1, o2 \in DOMAIN objs : objs[o1].m_label = objs[o2].m_label => o1 = o2

\* the chain holds the owned Labels, each once, and no other Label exists;
\* the tail pointer designates the last node and is null iff the chain is
\* empty
ChainIsOwnedLabels ==
    /\ Range(EngineLabelChain) = OwnedLabels
    /\ Len(EngineLabelChain) = Cardinality(OwnedLabels)
    /\ EngineLabels(St) = OwnedLabels
    /\ gpLabelListTail = IF EngineLabelChain = <<>> THEN NULL
                         ELSE EngineLabelChain[Len(EngineLabelChain)]
    /\ (gpLabelListTail = NULL) <=> (gpLabelList = NULL)
    /\ \A i \in DOMAIN EngineLabelChain :
          labels[EngineLabelChain[i]].pPrev =
              IF i = 1 THEN NULL ELSE EngineLabelChain[i - 1]

\* the label-to-object map has the owned Labels as keys, each mapped to its
\* owner
LabelMapIsOwnership ==
    /\ DOMAIN LabelMap = OwnedLabels
    /\ \A l \in DOMAIN LabelMap :
          LabelMap[l] \in DOMAIN objs /\ objs[LabelMap[l]].m_label = l

\* the lookup of any label address gives a live object or nothing
LookupIsLive ==
    \A l \in 1..(MaxObjects + 1) :
        GetMapObjectForLabel(St, l) \in DOMAIN objs \cup {NULL}

\* C39: at every reachable state each live object owns exactly one Label,
\* the engine label chain contains exactly those Labels (its tail pointer
\* designates the last node and is null iff the chain is empty), and the
\* label-to-object map has exactly those Labels as keys, each mapped to
\* its owning live object, so GetMapObjectForLabel never returns a
\* destroyed object
C39_LabelsMatchObjects ==
    /\ OneLabelEach
    /\ ChainIsOwnedLabels
    /\ LabelMapIsOwnership
    /\ LookupIsLive

\* three objects of three kinds are live after one was destroyed, in the
\* attach window of a frame
C39_Witness ==
    /\ InAttachWindow
    /\ s_labelsAttached
    /\ {objs[o].kind : o \in DOMAIN objs} = {"spawn", "ground", "loc"}
    /\ Cardinality(DOMAIN objs) >= 3
    /\ events >= 2

\* objects were destroyed and the chain is empty again
C39_WitnessEmptied ==
    /\ pc = "idle"
    /\ events >= 2
    /\ objs = <<>>
    /\ gpLabelList = NULL
    /\ lastOp = "RemoveGroundItem"

-----------------------------------------------------------------------------
(* The direction vectors of spawns (SpecVector): the Vector filter is on   *)
(* at start and is switched by the user, spawns come and go and are hidden *)
(* and shown, frames are drawn.  No spawn moves, so the position of a      *)
(* spawn is its position when its object was generated.                    *)

InitVector ==
    Start(OnSetGameState(Initialize(
        [spawnInfo |-> WorldOf(Spawns, [sp \in Spawns |-> TypeOfHandle(sp)]),
         pSpawnList |-> Spawns, groundList |-> {}, pTarget |-> NULL,
         gameLabels |-> HostLabelNode, gameLines |-> HostLineNode,
         Enabled |-> [DefaultEnabled EXCEPT !["Vector"] = TRUE], Marker |-> NoMarkers]),
        GAMESTATE_INGAME))

NextVector ==
    \/ Frame_Enter
    \/ Frame_Run
    \/ \E sp \in Spawns : Game_AddSpawn(sp, Names[TypeOfHandle(sp)])
    \/ \E sp \in Spawns : Game_RemoveSpawn(sp)
    \/ \E szValue \in {"hide", "show"} : Cmd_MapFilters("Vector", szValue)
    \/ Api_MapHide([ClearedSearch EXCEPT !.SpawnType = "NPC"])
    \/ Cmd_MapShow

SpecVector == InitVector /\ [][NextVector]_vars

\* the live spawn objects and the vector lines they own
LiveSpawnObjects == {o \in DOMAIN objs : objs[o].kind = "spawn"}
OwnedVectors == {objs[o].m_vector : o \in LiveSpawnObjects} \ {NULL}

\* with the Vector filter on every live spawn object owns one Line of its
\* own, which is in the engine line chain; no Line outlives its object and
\* none is freed while its object lives
VectorOwnedWhileLive ==
    /\ \A o \in LiveSpawnObjects :
          (objs[o].m_vector # NULL) = IsOptionEnabled(St, "Vector")
    /\ \A o1, o2 \in LiveSpawnObjects :
          (objs[o1].m_vector # NULL /\ objs[o1].m_vector = objs[o2].m_vector) => o1 = o2
    /\ OwnedVectors = DOMAIN lines
    /\ OwnedVectors = Range(EngineChain(lines, gpLineList, Cardinality(DOMAIN lines) + 1))

\* the vector Line of o starts at the spawn's rendering-space position and
\* ends elsewhere
VectorPlaced(o) ==
    /\ lines[objs[o].m_vector].Start = RenderPoint(spawnInfo[objs[o].handle].pos)
    /\ lines[objs[o].m_vector].End # lines[objs[o].m_vector].Start

\* what the code does: every vector Line stays at the origin, where InitLine
\* left it, since UpdateVector runs before m_vector is set
VectorLeftAtOrigin ==
    \A o \in LiveSpawnObjects :
        objs[o].m_vector # NULL =>
            /\ lines[objs[o].m_vector].Start = Origin
            /\ lines[objs[o].m_vector].End = Origin

\* the part that holds
VectorOwnedButUnplaced == VectorOwnedWhileLive /\ VectorLeftAtOrigin

\* a spawn was removed and its Line went with it, another object keeps its
\* own
VectorFreedWithObject ==
    /\ pc = "idle"
    /\ events >= 1
    /\ Cardinality(LiveSpawnObjects) = 1
    /\ Cardinality(DOMAIN lines) = 1
    /\ pSpawnList # Spawns

\* C40: a spawn object created while the Vector filter is enabled owns
\* exactly one directional Line, whose start point is the spawn's
\* rendering-space position (-x, -y, z) and whose end point is derived
\* from the spawn's velocity or heading at generation; the Line is in the
\* engine line chain while the object lives and is freed when the object
\* is destroyed
C40_VectorLineOfSpawn ==
    /\ VectorOwnedWhileLive
    /\ \A o \in LiveSpawnObjects : objs[o].m_vector # NULL => VectorPlaced(o)

=============================================================================
